---- MODULE Spec2Model ----
(***************************************************************************)
(* A model of the RustScale tiled inference pipeline (src-tauri/src):      *)
(*   image_processing.rs  process_tiled, mirror_coordinate,                *)
(*                        extract_tile_with_mirroring, stitch_tile         *)
(*   engine/mod.rs        UpscaleEngine::process_with_session, ::run       *)
(*   state.rs             AppState::get_or_load_model, get_model_scale,    *)
(*                        invalidate_cache                                 *)
(*   commands.rs          upscale_image, upscale_multiple, cancel_job      *)
(*   inference.rs         OrtSession::new, run_inference, run_with_binding,*)
(*                        detect_scale, images_to_buffer                   *)
(*   models.rs            ModelScanner::scan_file                          *)
(* The specifications share the variables below:                           *)
(*   SpecMirror      one row of extract_tile_with_mirroring, pixel by pixel*)
(*   SpecModelCache  callers of get_or_load_model and invalidate_cache     *)
(*   SpecScaleCache  callers of get_model_scale and invalidate_cache       *)
(*   Spec            one UpscaleEngine::run job: configuration, the tiled  *)
(*                   passes (producer thread, bounded channel, consumer),  *)
(*                   scale reconciliation and save_result                  *)
(*   SpecTiled       the same job on a model of fixed input size whose     *)
(*                   tile is one pixel: grids of several tiles and batches *)
(*   SpecCommands    one upscale_image or upscale_multiple command around  *)
(*                   that job: running_jobs, the loop over the paths, the  *)
(*                   background save tasks, the batch report, cancel_job   *)
(*   SpecSession     threads calling run_inference, run_with_binding and   *)
(*                   detect_scale on shared sessions, under fair scheduling*)
(*   SpecPreflight      the memory check of process_tiled and the canvas   *)
(*   SpecScaleFallback  the scale load_model, preload_model and scan_file  *)
(*                      give a model file                                  *)
(*   SpecProviders      OrtSession::new over the execution providers       *)
(*   SpecDetectScale    one call of detect_scale, run by run               *)
(*   SpecBuffer         one call of images_to_buffer                       *)
(*   SpecStitch         one call of stitch_tile, row by row                *)
(*   SpecCancel         concurrent upscale_image commands and cancel_job   *)
(* SpecPipeline is SpecTiled under fair scheduling of the producer thread  *)
(* and the consumer.                                                       *)
(***************************************************************************)
EXTENDS Integers, Sequences, FiniteSets, TLC

VARIABLES
    \* ---- extract_tile_with_mirroring (SpecMirror)
    ex,             \* [img_w, x_start, target_w, padding] of the row being extracted
    tile_x,         \* loop variable of the row (0..total_w)
    src_x_ideal,    \* coordinate relative to the source image of the last pixel
    src_x,          \* mirror_coordinate of it (the column actually sampled)
    \* ---- AppState caches (SpecModelCache, SpecScaleCache)
    model_cache,    \* Option<(PathBuf, Arc<OrtSession>)>: <<>> or <<[path, session]>>
    scale_cache,    \* HashMap<PathBuf, u32>: per path its entry, or NoEntry
    sessions,       \* the OrtSessions opened so far (a handle is an index)
    call,           \* per caller: the call in progress, its locals and what it saw
    lastOp,         \* the cache operation that returned last (history)
    lastProbe,      \* per path: outcome of the last detect_scale since invalidation
    holds,          \* per caller: the Arc<OrtSession> its job holds (0: none)
    freed,          \* the sessions whose last Arc was dropped
    replaced,       \* the sessions the slot held and no longer holds (history)
    \* ---- UpscaleEngine::run (Spec)
    cfg,            \* the job's inputs
    job,            \* process_with_session / run: position and locals
    cancel_flag,    \* Arc<AtomicBool>
    pass,           \* process_tiled: locals of the running pass
    prod,           \* producer thread: position, loop index, tile_batch/meta_batch
    chan,           \* sync_channel(4): [buf, tx, rx]
    cons,           \* consumer (scope body): position, batch in hand
    output_image,   \* the rectangles stitch_tile has copied into the canvas, in order
    obs,            \* what the job's environment observed (history)
    \* ---- the commands upscale_image, upscale_multiple, cancel_job (SpecCommands)
    running_jobs,   \* AppState.running_jobs: the job ids that have a flag registered
    cmd,            \* the command in progress: position, paths.len(), loop index, result
    save_handles,   \* upscale_multiple: the images whose save task was spawned, in order
    saves,          \* per image: state of its background save task
    successful,     \* upscale_multiple: Vec of the images saved
    failed,         \* upscale_multiple: Vec of (image, reason)
    events,         \* the file-complete / file-error events emitted, and what the
                    \* inference of each image did (history)
    \* ---- OrtSession (SpecSession)
    session_lock,   \* per session: its Mutex<Session>: [holder, poisoned]
    thr,            \* per thread: the OrtSession call in progress, its locals, its result
    fwd,            \* per session: the threads inside session.run(..) (history)
    \* ---- single functions (SpecPreflight, SpecScaleFallback, SpecProviders,
    \*      SpecDetectScale, SpecBuffer)
    mem,            \* process_tiled up to the canvas: inputs, position, result
    scan,           \* the scale of a model file: inputs, entry point, result
    ort,            \* OrtSession::new: inputs, position, providers tried, result
    probe,          \* detect_scale: loop index, the runs made, result
    batch,          \* images_to_buffer: inputs, position, buffer, result
    \* ---- stitch_tile (SpecStitch)
    stitch,         \* one call of stitch_tile: inputs, locals, rows copied, result
    \* ---- concurrent upscale_image commands and cancel_job (SpecCancel)
    registry        \* running_jobs as a map, the commands and their flags, the last cancel_job

mirrorVars == <<ex, tile_x, src_x_ideal, src_x>>
cacheVars  == <<model_cache, scale_cache, sessions, call, lastOp, lastProbe,
                 holds, freed, replaced>>
jobVars    == <<cfg, job, cancel_flag, pass, prod, chan, cons, output_image, obs>>
cmdVars    == <<running_jobs, cmd, save_handles, saves, successful, failed, events>>
sessVars   == <<session_lock, thr, fwd>>
unitVars   == <<mem, scan, ort, probe, batch, stitch, registry>>
vars       == <<mirrorVars, cacheVars, jobVars, cmdVars, sessVars, unitVars>>

Min(a, b) == IF a <= b THEN a ELSE b
Max(a, b) == IF a >= b THEN a ELSE b

RECURSIVE Pow2(_)
Pow2(k) == IF k = 0 THEN 1 ELSE 2 * Pow2(k - 1)

(***************************************************************************)
(* IEEE-754 binary32 arithmetic, as far as the code uses it.  A positive   *)
(* f32 is <<mant, k>>, standing for mant / 2^k with 2^23 <= mant <= 2^24.  *)
(***************************************************************************)
F32Bits == 24

\* Long division n/d, one quotient bit at a time, until the quotient holds
\* 24 significant bits: <<quotient, remainder, bits after the point>>.
RECURSIVE DivBits(_, _, _, _)
DivBits(q, r, d, k) ==
    IF q >= Pow2(F32Bits - 1) THEN <<q, r, k>>
    ELSE IF 2 * r >= d THEN DivBits(2 * q + 1, 2 * r - d, d, k + 1)
                       ELSE DivBits(2 * q, 2 * r, d, k + 1)

\* `n as f32 / d as f32` for 0 < n, d < 2^24: the quotient, rounded to nearest,
\* ties to even.
F32Div(n, d) ==
    LET b == DivBits(n \div d, n % d, d, 0)
        up == 2 * b[2] > d \/ (2 * b[2] = d /\ b[1] % 2 = 1)
    IN  <<IF up THEN b[1] + 1 ELSE b[1], b[3]>>

\* f.ceil() as u32
F32Ceil(f) ==
    IF f[2] >= F32Bits + 1 THEN 1
    ELSE (f[1] + Pow2(f[2]) - 1) \div Pow2(f[2])

\* The number of bits p has above 24 (0 when it fits).
RECURSIVE ExcessBits(_)
ExcessBits(p) == IF p < Pow2(F32Bits) THEN 0 ELSE 1 + ExcessBits(p \div 2)

\* (w as f32 * f) as u32 for 0 <= w < 2^24: the product rounded to 24
\* significant bits (nearest, ties to even), then truncated.
F32MulTrunc(w, f) ==
    LET p == w * f[1]
        j == ExcessBits(p)
        q == p \div Pow2(j)
        r == p % Pow2(j)
        up == 2 * r > Pow2(j) \/ (2 * r = Pow2(j) /\ q % 2 = 1)
        m == IF up THEN q + 1 ELSE q
    IN  IF j >= f[2] THEN m * Pow2(j - f[2])
        ELSE IF f[2] - j > 30 THEN 0
        ELSE m \div Pow2(f[2] - j)

(***************************************************************************)
(* image_processing.rs: mirror_coordinate                                  *)
(***************************************************************************)
\* while c >= max { c = 2 * (max - 1) - c; }
RECURSIVE ReflectUpper(_, _)
ReflectUpper(c, max) == IF c >= max THEN ReflectUpper(2 * (max - 1) - c, max) ELSE c

Clamp(c, lo, hi) == IF c < lo THEN lo ELSE IF c > hi THEN hi ELSE c

\* One negation covers `while c < 0 { c = -c; }`: -c is positive.
mirror_coordinate(coord, max) ==
    LET c0 == IF coord < 0 THEN 0 - coord ELSE coord
    IN  Clamp(ReflectUpper(c0, max), 0, max - 1)

\* The ping-pong reflection the mirroring is documented to compute
\* ("0 1 2 1 0"): i -> -i while i < 0, i -> 2(max-1) - i while i >= max,
\* repeated until 0 <= i < max.  With max = 1 only column 0 exists.
RECURSIVE PingPong(_, _)
PingPong(i, max) ==
    IF max = 1 THEN 0
    ELSE IF i < 0 THEN PingPong(0 - i, max)
    ELSE IF i >= max THEN PingPong(2 * (max - 1) - i, max)
    ELSE i

(***************************************************************************)
(* image_processing.rs: extract_tile_with_mirroring, one row               *)
(***************************************************************************)
Padding == 32
MaxImg == 6
MaxTile == 3

NoPixel == 0 - 1000

\* The tile origins process_tiled asks for: x * tile_size inside the image,
\* with the padding it passes (0 for a 1x1 grid, else 32).
ExtractInputs ==
    { [img_w |-> w, x_start |-> x * t, target_w |-> t, padding |-> p] :
        w \in 1..MaxImg, t \in 1..MaxTile, x \in 0..(MaxImg - 1), p \in {0, Padding} }

MirrorIdle ==
    /\ ex = [img_w |-> 1, x_start |-> 0, target_w |-> 1, padding |-> 0]
    /\ tile_x = 0
    /\ src_x_ideal = NoPixel
    /\ src_x = NoPixel

InitMirror ==
    /\ ex \in { e \in ExtractInputs : e.x_start < e.img_w }
    /\ tile_x = 0
    /\ src_x_ideal = NoPixel
    /\ src_x = NoPixel

\* for tile_x in 0..total_w: src_x = mirror_coordinate(x_start + tile_x - padding, img_w)
SamplePixel ==
    /\ tile_x < ex.target_w + 2 * ex.padding
    /\ src_x_ideal' = ex.x_start + tile_x - ex.padding
    /\ src_x' = mirror_coordinate(ex.x_start + tile_x - ex.padding, ex.img_w)
    /\ tile_x' = tile_x + 1
    /\ UNCHANGED ex
    /\ UNCHANGED <<cacheVars, jobVars, cmdVars, sessVars, unitVars>>

(***************************************************************************)
(* state.rs: AppState::get_or_load_model, get_model_scale,                 *)
(* invalidate_cache.  Each caller is a thread of the host's blocking pool; *)
(* a step is what runs under one acquisition of a cache mutex, or one      *)
(* heavy operation (OrtSession::new, detect_scale) between two of them.    *)
(***************************************************************************)
Callers == {"t1", "t2"}
Paths == {"a_x2.onnx", "b.onnx"}
MaxSessions == 3
MaxProbeScale == 2

None == <<>>
Some(v) == <<v>>
Ok(v) == <<"ok", v>>
Err(e) == <<"err", e>>
Nothing == <<"none">>
Miss == <<"miss">>
NoEntry == 0 - 1

\* A call in progress: its arguments and locals, and what it has observed so
\* far (loaded, probed, prev, prior, stale are history).
Idle == [op |-> "idle", pc |-> "idle", path |-> "", low |-> FALSE, session |-> 0,
         probe |-> Nothing, loaded |-> FALSE, probed |-> FALSE, prev |-> Nothing,
         prior |-> Nothing, stale |-> FALSE]
\* The operation that returned last: a call record with its result.
NoOp == [op |-> "none", path |-> "", low |-> FALSE, ret |-> Nothing, loaded |-> FALSE,
         probed |-> FALSE, prev |-> Nothing, prior |-> Nothing, stale |-> FALSE]

\* What detect_scale can return: an error, or out_width / input_dim.
ProbeResults == {Err("probe")} \cup { Ok(s) : s \in 0..MaxProbeScale }

CacheIdle ==
    /\ model_cache = None
    /\ scale_cache = [p \in Paths |-> NoEntry]
    /\ sessions = <<>>
    /\ call = [t \in Callers |-> Idle]
    /\ lastOp = NoOp
    /\ lastProbe = [p \in Paths |-> Nothing]
    /\ holds = [t \in Callers |-> 0]
    /\ freed = {}
    /\ replaced = {}

\* One session per model file is open, as after load_model's get_or_load_model.
InitScaleCache ==
    /\ model_cache = None
    /\ scale_cache = [p \in Paths |-> NoEntry]
    /\ sessions = <<"a_x2.onnx", "b.onnx">>
    /\ call = [t \in Callers |-> Idle]
    /\ lastOp = NoOp
    /\ lastProbe = [p \in Paths |-> Nothing]
    /\ holds = [t \in Callers |-> 0]
    /\ freed = {}
    /\ replaced = {}

Busy(t) == call[t].pc # "idle"

\* A call is consecutive to the operation that returned last when no other
\* operation runs between that return and its own: prev is the handle a
\* get_or_load_model of the same path returned last with the preflight not
\* tripped, and is forgotten as soon as another caller begins an operation.
Disturb(t, c) == [u \in Callers |-> IF u # t /\ Busy(u) THEN [c[u] EXCEPT !.prev = Nothing] ELSE c[u]]
PrevFor(t, p) ==
    IF /\ \A u \in Callers \ {t} : ~Busy(u)
       /\ lastOp.op = "get_or_load_model" /\ lastOp.path = p /\ ~lastOp.low
       /\ lastOp.ret[1] = "ok"
    THEN lastOp.ret ELSE Nothing

\* The number of Arcs of session h: the slot's, the jobs', and the
\* session_arc of a call between its load and its store.
StrongCount(h) ==
    (IF model_cache # None /\ model_cache[1].session = h THEN 1 ELSE 0)
    + Cardinality({ t \in Callers : holds[t] = h })
    + Cardinality({ t \in Callers : call[t].pc = "store" /\ call[t].session = h })

\* An Arc whose drop frees the session whatever else refers to it.
DropArcFrees(frd, h, remaining) == frd \cup {h}

\* An Arc of session h is dropped: the session is freed when no Arc remains
\* ("unless it's currently in use by a running job (Arc count > 1)")
\* (state.rs 140-142)
DropArc(frd, h, remaining) == IF remaining = 0 THEN frd \cup {h} ELSE frd

\* A preflight that sends every call to the cache.
AfterPreflightAlwaysCached(low) == "check"

\* if available_ram_gb < 2.0 { load and return } else { 2. Check Cache }
\* (state.rs 106-122)
AfterPreflight(low) == IF low THEN "load_fresh" ELSE "check"

\* if available_ram_gb < 2.0 { load, return without caching }   (state.rs 106-119)
GetBegin(t, p, npu, low) ==
    /\ ~Busy(t)
    /\ holds[t] = 0
    /\ call' = [Disturb(t, call) EXCEPT ![t] = [Idle EXCEPT !.op = "get_or_load_model",
                     !.pc = AfterPreflight(low), !.path = p, !.low = low,
                     !.prev = PrevFor(t, p)]]
    /\ UNCHANGED <<model_cache, scale_cache, sessions, lastOp, lastProbe>>
    /\ UNCHANGED <<mirrorVars, jobVars, cmdVars, sessVars, unitVars>>
    /\ UNCHANGED <<holds, freed, replaced>>

\* The call of t returns r.
Return(t, c, r) ==
    /\ call' = [call EXCEPT ![t] = Idle]
    /\ lastOp' = [op |-> c.op, path |-> c.path, low |-> c.low, ret |-> r, loaded |-> c.loaded,
                  probed |-> c.probed, prev |-> c.prev, prior |-> c.prior,
                  stale |-> c.stale]

\* A lookup that never finds the cached session.
CacheNeverHits(slot, p) == FALSE

\* if cached_path == model_path   (state.rs 124-125)
CacheHit(slot, p) == slot # None /\ slot[1].path = p

\* 2. Check Cache   (state.rs 122-130)
GetCheck(t) ==
    /\ call[t].op = "get_or_load_model" /\ call[t].pc = "check"
    /\ IF CacheHit(model_cache, call[t].path)
       THEN Return(t, call[t], Ok(model_cache[1].session))
       ELSE /\ call' = [call EXCEPT ![t].pc = "load"]
            /\ UNCHANGED lastOp
    /\ UNCHANGED <<model_cache, scale_cache, sessions, lastProbe>>
    /\ UNCHANGED <<mirrorVars, jobVars, cmdVars, sessVars, unitVars>>
    /\ holds' = IF CacheHit(model_cache, call[t].path)
                THEN [holds EXCEPT ![t] = model_cache[1].session] ELSE holds
    /\ UNCHANGED <<freed, replaced>>

\* OrtSession::new(model_path, prefer_npu)?   (state.rs 117-118, 134-135)
GetLoad(t, ok) ==
    /\ call[t].op = "get_or_load_model" /\ call[t].pc \in {"load", "load_fresh"}
    /\ IF ~ok
       THEN /\ Return(t, call[t], Err("load"))
            /\ UNCHANGED sessions
       ELSE /\ Len(sessions) < MaxSessions
            /\ sessions' = Append(sessions, call[t].path)
            /\ IF call[t].pc = "load_fresh"
               THEN Return(t, [call[t] EXCEPT !.loaded = TRUE], Ok(Len(sessions) + 1))
               ELSE /\ call' = [call EXCEPT ![t].pc = "store", ![t].loaded = TRUE,
                                            ![t].session = Len(sessions) + 1]
                    /\ UNCHANGED lastOp
    /\ UNCHANGED <<model_cache, scale_cache, lastProbe>>
    /\ UNCHANGED <<mirrorVars, jobVars, cmdVars, sessVars, unitVars>>
    /\ holds' = IF ok /\ call[t].pc = "load_fresh"
                THEN [holds EXCEPT ![t] = Len(sessions) + 1] ELSE holds
    /\ UNCHANGED <<freed, replaced>>

\* *cache = Some((model_path.to_path_buf(), session_arc.clone()))   (state.rs 142)
StoreSlot(slot, p, s) == Some([path |-> p, session |-> s])

\* 4. Update Cache (Single Slot)   (state.rs 138-145)
GetStore(t) ==
    /\ call[t].op = "get_or_load_model" /\ call[t].pc = "store"
    /\ model_cache' = StoreSlot(model_cache, call[t].path, call[t].session)
    /\ Return(t, call[t], Ok(call[t].session))
    /\ UNCHANGED <<scale_cache, sessions, lastProbe>>
    /\ UNCHANGED <<mirrorVars, jobVars, cmdVars, sessVars, unitVars>>
    /\ holds' = [holds EXCEPT ![t] = call[t].session]
    /\ IF model_cache # None
       THEN /\ freed' = DropArc(freed, model_cache[1].session,
                                StrongCount(model_cache[1].session) - 1)
            /\ replaced' = replaced \cup {model_cache[1].session}
       ELSE UNCHANGED <<freed, replaced>>

\* get_model_scale(model_path, session): the session is one opened for the path.
ScaleBegin(t, p, s) ==
    /\ ~Busy(t)
    /\ s \in 1..Len(sessions) /\ sessions[s] = p
    /\ call' = [Disturb(t, call) EXCEPT ![t] = [Idle EXCEPT !.op = "get_model_scale",
                     !.pc = "check", !.path = p, !.session = s]]
    /\ UNCHANGED <<model_cache, scale_cache, sessions, lastOp, lastProbe>>
    /\ UNCHANGED <<mirrorVars, jobVars, cmdVars, sessVars, unitVars>>
    /\ UNCHANGED <<holds, freed, replaced>>

\* if let Some(&scale) = cache.get(model_path) { if scale == 0 { Err } else { Ok(scale) } }
\* (state.rs 152-160)
ScaleLookup(cache, p) ==
    IF cache[p] = NoEntry THEN Miss
    ELSE IF cache[p] = 0 THEN Err("negative_cache")
    ELSE Ok(cache[p])

\* 1. Check Cache   (state.rs 150-161)
ScaleCheck(t) ==
    /\ call[t].op = "get_model_scale" /\ call[t].pc = "check"
    /\ LET r == ScaleLookup(scale_cache, call[t].path)
           c == [call[t] EXCEPT !.prior = lastProbe[call[t].path]]
       IN  IF r = Miss
           THEN /\ call' = [call EXCEPT ![t] = [c EXCEPT !.pc = "probe"]]
                /\ UNCHANGED lastOp
           ELSE Return(t, c, r)
    /\ UNCHANGED <<model_cache, scale_cache, sessions, lastProbe>>
    /\ UNCHANGED <<mirrorVars, jobVars, cmdVars, sessVars, unitVars>>
    /\ UNCHANGED <<holds, freed, replaced>>

\* 2. Run Detection: let result = session.detect_scale();   (state.rs 165)
ScaleProbe(t, r) ==
    /\ call[t].op = "get_model_scale" /\ call[t].pc = "probe"
    /\ call' = [call EXCEPT ![t].pc = "update", ![t].probe = r, ![t].probed = TRUE]
    /\ UNCHANGED <<model_cache, scale_cache, sessions, lastOp, lastProbe>>
    /\ UNCHANGED <<mirrorVars, jobVars, cmdVars, sessVars, unitVars>>
    /\ UNCHANGED <<holds, freed, replaced>>

\* cache.insert(path, scale) on Ok(scale), cache.insert(path, 0) on Err
\* (state.rs 169-182)
ScaleInsert(cache, p, r) ==
    [cache EXCEPT ![p] = IF r[1] = "ok" THEN r[2] ELSE 0]

\* 3. Update Cache   (state.rs 168-183)
ScaleUpdate(t) ==
    /\ call[t].op = "get_model_scale" /\ call[t].pc = "update"
    /\ scale_cache' = ScaleInsert(scale_cache, call[t].path, call[t].probe)
    /\ lastProbe' = [lastProbe EXCEPT ![call[t].path] = call[t].probe]
    /\ Return(t, call[t], call[t].probe)
    /\ UNCHANGED <<model_cache, sessions>>
    /\ UNCHANGED <<mirrorVars, jobVars, cmdVars, sessVars, unitVars>>
    /\ UNCHANGED <<holds, freed, replaced>>

\* The probes an invalidate_cache(p) overtakes: the get_model_scale calls of p
\* that have released the lock after their miss (state.rs 161) and have not yet
\* taken it again for the update (state.rs 168).
Overtake(p, c) ==
    [u \in Callers |->
        IF c[u].op = "get_model_scale" /\ c[u].path = p /\ c[u].pc \in {"probe", "update"}
        THEN [c[u] EXCEPT !.stale = TRUE] ELSE c[u]]

\* invalidate_cache(path): cache.remove(path) on the scale cache   (state.rs 186-191)
Invalidate(t, p) ==
    /\ ~Busy(t)
    /\ scale_cache' = [scale_cache EXCEPT ![p] = NoEntry]
    /\ lastProbe' = [lastProbe EXCEPT ![p] = Nothing]
    /\ call' = Overtake(p, Disturb(t, call))
    /\ lastOp' = [NoOp EXCEPT !.op = "invalidate_cache", !.path = p, !.ret = Ok(0)]
    /\ UNCHANGED <<model_cache, sessions>>
    /\ UNCHANGED <<mirrorVars, jobVars, cmdVars, sessVars, unitVars>>
    /\ UNCHANGED <<holds, freed, replaced>>

\* The job of caller t ends: its Arc<OrtSession> is dropped.
DropSession(t) ==
    /\ ~Busy(t)
    /\ holds[t] # 0
    /\ holds' = [holds EXCEPT ![t] = 0]
    /\ freed' = DropArc(freed, holds[t], StrongCount(holds[t]) - 1)
    /\ UNCHANGED <<model_cache, scale_cache, sessions, call, lastOp, lastProbe, replaced>>
    /\ UNCHANGED <<mirrorVars, jobVars, cmdVars, sessVars, unitVars>>

NextModelCache ==
    \/ \E t \in Callers, p \in Paths, npu \in BOOLEAN, low \in BOOLEAN : GetBegin(t, p, npu, low)
    \/ \E t \in Callers : GetCheck(t)
    \/ \E t \in Callers, ok \in BOOLEAN : GetLoad(t, ok)
    \/ \E t \in Callers : GetStore(t)
    \/ \E t \in Callers : DropSession(t)
    \/ \E t \in Callers, p \in Paths : Invalidate(t, p)

NextScaleCache ==
    \/ \E t \in Callers, p \in Paths, s \in 1..MaxSessions : ScaleBegin(t, p, s)
    \/ \E t \in Callers : ScaleCheck(t)
    \/ \E t \in Callers, r \in ProbeResults : ScaleProbe(t, r)
    \/ \E t \in Callers : ScaleUpdate(t)
    \/ \E t \in Callers, p \in Paths : Invalidate(t, p)

(***************************************************************************)
(* engine/mod.rs: UpscaleEngine::process_with_session and ::run, with      *)
(* image_processing.rs: process_tiled.  One job; the model is loaded       *)
(* (LoadedModel: its scale, its session's input shape, its recommended     *)
(* tile size are inputs of the job).                                       *)
(***************************************************************************)
MaxW == 3
MaxH == 2
MinBatch == 1
MaxBatch == 8
DefaultTile == 256
MinPadding == 32
QueueCap == 4

Scales == {2, 3, 4}

\* config.batch_size: Option<u32>
BatchRequests == {None, Some(0), Some(2), Some(9)}
\* shape[0] of the session's input: dynamic, or fixed
FixedBatches == {None, Some(1), Some(2)}
\* shape[2] of the session's input: dynamic, or fixed (64 is too small for the padding)
FixedSizes == {None, Some(64), Some(66)}

Configs ==
    [W : 1..MaxW, H : 1..MaxH, model_scale : Scales, target_scale : Scales,
     batch_size : BatchRequests, fixed_batch : FixedBatches,
     fixed_input_size : FixedSizes, recommended_tile_size : {DefaultTile}]

\* config.batch_size.unwrap_or(1).clamp(1, 8)   (mod.rs 151)
RequestedBatch(c) ==
    IF c.batch_size = None THEN 1 ELSE Clamp(c.batch_size[1], MinBatch, MaxBatch)

\* if static_b == 1 && batch_size > 1   (mod.rs 153-154)
BatchOverridden(c) == c.fixed_batch = Some(1) /\ RequestedBatch(c) > 1

\* The requested batch, left as it is for a model whose batch is fixed to 1.
EffectiveBatchUnforced(c) == RequestedBatch(c)

\* batch_size after the override   (mod.rs 164)
EffectiveBatch(c) == IF BatchOverridden(c) THEN 1 ELSE RequestedBatch(c)

\* fixed_size <= padding * 2   (mod.rs 173)
TileTooSmall(c) == c.fixed_input_size # None /\ c.fixed_input_size[1] <= Padding * 2

\* tile_size   (mod.rs 171-182)
TileSize(c) ==
    IF c.fixed_input_size # None THEN c.fixed_input_size[1] - Padding * 2
    ELSE c.recommended_tile_size

NoPass == [no |-> 0, width |-> 0, height |-> 0, scale |-> 0, tile_size |-> 0, batch_size |-> 0,
           tiles_x |-> 0, tiles_y |-> 0, total_tiles |-> 0, padding |-> 0,
           out_width |-> 0, out_height |-> 0, processed_tiles |-> 0, result |-> Nothing]
NoThread == [pc |-> "idle", idx |-> 0, batch |-> <<>>]
NoChan == [buf |-> <<>>, tx |-> FALSE, rx |-> FALSE, parked |-> FALSE]
NoObs == [warnings |-> 0, saved |-> 0, tile_dims |-> {}, batch_lens |-> {},
          cancel_in_pass |-> 0, calls_after_cancel |-> 0,
          producer_saw_cancel |-> FALSE, sends_after_seen |-> 0,
          progress |-> <<>>, resizes |-> <<>>, passes |-> <<>>,
          batches |-> <<>>, calls |-> 0, miscount |-> <<>>, error |-> <<>>]
NewJob == [pc |-> "load_image", batch_size |-> 0, tile_size |-> 0, image |-> <<0, 0>>,
           final |-> <<0, 0>>, returned |-> Nothing, result |-> Nothing]

JobIdle ==
    /\ cfg = [W |-> 1, H |-> 1, model_scale |-> 2, target_scale |-> 2, batch_size |-> None,
              fixed_batch |-> None, fixed_input_size |-> None,
              recommended_tile_size |-> DefaultTile]
    /\ job = [NewJob EXCEPT !.pc = "done"]
    /\ cancel_flag = FALSE
    /\ pass = NoPass
    /\ prod = NoThread
    /\ chan = NoChan
    /\ cons = NoThread
    /\ output_image = <<>>
    /\ obs = NoObs

InitJob ==
    /\ cfg \in Configs
    /\ job = NewJob
    /\ cancel_flag = FALSE
    /\ pass = NoPass
    /\ prod = NoThread
    /\ chan = NoChan
    /\ cons = NoThread
    /\ output_image = <<>>
    /\ obs = NoObs

\* process_with_session or run returns Err(e)
Fail(e) == job' = [job EXCEPT !.pc = "done", !.returned = Err(e), !.result = Err(e)]

\* let image = Arc::new(image_processing::load_image(&img_path)?);   (mod.rs 107)
LoadImage(ok) ==
    /\ job.pc = "load_image"
    /\ IF ok THEN job' = [job EXCEPT !.pc = "configure", !.image = <<cfg.W, cfg.H>>]
             ELSE Fail("image")
    /\ UNCHANGED <<cfg, cancel_flag, pass, prod, chan, cons, output_image, obs>>
    /\ UNCHANGED <<mirrorVars, cacheVars, cmdVars, sessVars, unitVars>>

\* 3. constraints check, 4. configuration   (mod.rs 118-188)
Configure ==
    /\ job.pc = "configure"
    /\ obs' = [obs EXCEPT !.warnings = IF BatchOverridden(cfg) THEN @ + 1 ELSE @]
    /\ IF TileTooSmall(cfg) THEN Fail("input_too_small")
       ELSE job' = [job EXCEPT !.pc = "tiled", !.batch_size = EffectiveBatch(cfg),
                                !.tile_size = TileSize(cfg)]
    /\ UNCHANGED <<cfg, cancel_flag, pass, prod, chan, cons, output_image>>
    /\ UNCHANGED <<mirrorVars, cacheVars, cmdVars, sessVars, unitVars>>

\* (width as f32 / tile_size as f32).ceil() as u32   (image_processing.rs 166-167)
TilesAcross(extent, tile_size) == F32Ceil(F32Div(extent, tile_size))

\* The padding that is kept on a grid of one tile.
TilePaddingKept(total_tiles, padding) == Max(padding, MinPadding)

\* let padding = if total_tiles == 1 { 0 } else { config.padding.max(32) };
TilePadding(total_tiles, padding) == IF total_tiles = 1 THEN 0 ELSE Max(padding, MinPadding)

\* process_tiled up to the spawn of the producer   (image_processing.rs 147-186)
TiledBegin(mem_ok) ==
    /\ job.pc = "tiled"
    /\ IF ~mem_ok
       THEN /\ Fail("memory")
            /\ UNCHANGED <<pass, prod, chan, cons, output_image, obs>>
       ELSE LET w == job.image[1]
                h == job.image[2]
                tx == TilesAcross(w, job.tile_size)
                ty == TilesAcross(h, job.tile_size)
            IN  /\ pass' = [no |-> pass.no + 1, width |-> w, height |-> h,
                            scale |-> cfg.model_scale, tile_size |-> job.tile_size,
                            batch_size |-> job.batch_size, tiles_x |-> tx, tiles_y |-> ty,
                            total_tiles |-> tx * ty, padding |-> TilePadding(tx * ty, Padding),
                            out_width |-> w * cfg.model_scale,
                            out_height |-> h * cfg.model_scale,
                            processed_tiles |-> 0, result |-> Nothing]
                /\ job' = [job EXCEPT !.pc = "pass"]
                /\ prod' = [pc |-> "loop", idx |-> 0, batch |-> <<>>]
                /\ cons' = [pc |-> "recv", idx |-> 0, batch |-> <<>>]
                /\ chan' = [buf |-> <<>>, tx |-> TRUE, rx |-> TRUE, parked |-> FALSE]
                /\ output_image' = <<>>
                /\ obs' = [obs EXCEPT !.passes = Append(@,
                                [input |-> <<w, h>>, scale |-> cfg.model_scale,
                                 output |-> <<w * cfg.model_scale, h * cfg.model_scale>>,
                                 prior |-> pass.result]),
                                      !.batches = <<>>, !.calls = 0]
    /\ UNCHANGED <<cfg, cancel_flag>>
    /\ UNCHANGED <<mirrorVars, cacheVars, cmdVars, sessVars, unitVars>>

\* The tile at raster position idx (y outer, x inner): its metadata and the
\* size extract_tile_with_mirroring gives it   (image_processing.rs 195-219, 294-297)
TileAt(idx) ==
    LET x == idx % pass.tiles_x
        y == idx \div pass.tiles_x
    IN  [x_index |-> x, y_index |-> y,
         content_width |-> Min(pass.tile_size, pass.width - x * pass.tile_size),
         content_height |-> Min(pass.tile_size, pass.height - y * pass.tile_size),
         width |-> pass.tile_size + 2 * pass.padding,
         height |-> pass.tile_size + 2 * pass.padding]

\* The producer returns: its Sender is dropped.
ProducerExit ==
    /\ chan' = [chan EXCEPT !.tx = FALSE]

\* The batch that is never sent from inside the loop.
BatchNeverFull(b) == FALSE

\* if tile_batch.len() >= batch_size   (image_processing.rs 224)
BatchFull(b) == Len(b) >= pass.batch_size

\* One iteration of the producer's loop up to the send   (image_processing.rs 189-224)
ProducerTile ==
    /\ job.pc = "pass" /\ prod.pc = "loop"
    /\ IF cancel_flag
       THEN /\ prod' = [prod EXCEPT !.pc = "done"]
            /\ ProducerExit
            /\ obs' = [obs EXCEPT !.producer_saw_cancel = TRUE]
       ELSE LET b == Append(prod.batch, TileAt(prod.idx))
                last == prod.idx + 1 = pass.total_tiles
            IN  /\ prod' = [pc |-> IF BatchFull(b) THEN "send"
                                   ELSE IF last THEN "final" ELSE "loop",
                            idx |-> prod.idx + 1, batch |-> b]
                /\ UNCHANGED <<chan, obs>>
    /\ UNCHANGED <<cfg, job, cancel_flag, pass, cons, output_image>>
    /\ UNCHANGED <<mirrorVars, cacheVars, cmdVars, sessVars, unitVars>>

\* The channel that never makes the sender wait.
ChannelNeverFull(buf) == FALSE

\* sync_channel(4): a send blocks while 4 messages are buffered
\* (image_processing.rs 182)
ChannelFull(buf) == Len(buf) >= QueueCap

\* The send that never learns that the Receiver is gone.
NeverDisconnected == FALSE

\* The Receiver has been dropped: a send returns Err, and a sender parked in
\* send is woken to return it   (image_processing.rs 225, 235)
Disconnected == ~chan.rx

\* The producer is parked in tx.send: it has a batch to send and the buffer is
\* full   (image_processing.rs 225, 235)
SenderParked ==
    /\ prod.pc \in {"send", "final"}
    /\ prod.batch # <<>>
    /\ ChannelFull(chan.buf)

\* tx.send(..) on sync_channel(4): blocks while the buffer is full, fails once
\* the Receiver is dropped   (image_processing.rs 225-230)
ProducerSend ==
    /\ job.pc = "pass" /\ prod.pc = "send"
    /\ IF Disconnected
       THEN /\ prod' = [prod EXCEPT !.pc = "done"]
            /\ ProducerExit
            /\ UNCHANGED obs
       ELSE /\ ~ChannelFull(chan.buf)
            /\ chan' = [chan EXCEPT !.buf = Append(@, prod.batch)]
            /\ prod' = [prod EXCEPT !.batch = <<>>,
                            !.pc = IF prod.idx = pass.total_tiles THEN "final" ELSE "loop"]
            /\ obs' = [obs EXCEPT !.sends_after_seen =
                            IF obs.producer_saw_cancel THEN @ + 1 ELSE @]
    /\ UNCHANGED <<cfg, job, cancel_flag, pass, cons, output_image>>
    /\ UNCHANGED <<mirrorVars, cacheVars, cmdVars, sessVars, unitVars>>

\* if !tile_batch.is_empty() { let _ = tx.send(..); }   (image_processing.rs 234-237)
ProducerFinal ==
    /\ job.pc = "pass" /\ prod.pc = "final"
    /\ IF prod.batch = <<>> \/ Disconnected
       THEN /\ chan' = [chan EXCEPT !.tx = FALSE]
            /\ UNCHANGED obs
       ELSE /\ ~ChannelFull(chan.buf)
            /\ chan' = [chan EXCEPT !.buf = Append(@, prod.batch), !.tx = FALSE]
            /\ obs' = [obs EXCEPT !.sends_after_seen =
                            IF obs.producer_saw_cancel THEN @ + 1 ELSE @]
    /\ prod' = [prod EXCEPT !.pc = "done", !.batch = <<>>]
    /\ UNCHANGED <<cfg, job, cancel_flag, pass, cons, output_image>>
    /\ UNCHANGED <<mirrorVars, cacheVars, cmdVars, sessVars, unitVars>>

\* The scope body returns r: its Receiver is dropped with what it still holds.
ConsumerReturn(r) ==
    /\ cons' = [cons EXCEPT !.pc = "join", !.batch = <<>>]
    /\ chan' = [chan EXCEPT !.rx = FALSE, !.buf = <<>>, !.parked = SenderParked]
    /\ pass' = [pass EXCEPT !.result = r]

\* while let Ok((batch, metadata_batch)) = rx.recv()   (image_processing.rs 240, 258)
ConsumerRecv ==
    /\ job.pc = "pass" /\ cons.pc = "recv"
    /\ IF chan.buf # <<>>
       THEN /\ cons' = [cons EXCEPT !.pc = "check", !.batch = Head(chan.buf)]
            /\ chan' = [chan EXCEPT !.buf = Tail(@)]
            /\ obs' = [obs EXCEPT !.batches = Append(@,
                            [i \in 1..Len(Head(chan.buf)) |->
                                <<Head(chan.buf)[i].x_index, Head(chan.buf)[i].y_index>>])]
            /\ UNCHANGED pass
       ELSE /\ ~chan.tx
            /\ ConsumerReturn(Ok(0))
            /\ UNCHANGED obs
    /\ UNCHANGED <<cfg, job, cancel_flag, prod, output_image>>
    /\ UNCHANGED <<mirrorVars, cacheVars, cmdVars, sessVars, unitVars>>

\* A consumer that does not look at the flag.
ConsumerNeverLooks == FALSE

\* cancel_flag.load(Ordering::Relaxed) in the consumer   (image_processing.rs 241)
ConsumerSeesCancel == cancel_flag

\* if cancel_flag.load(..) { return Err("Operation cancelled") }   (image_processing.rs 241-243)
ConsumerCheck ==
    /\ job.pc = "pass" /\ cons.pc = "check"
    /\ IF ConsumerSeesCancel
       THEN ConsumerReturn(Err("cancelled"))
       ELSE /\ cons' = [cons EXCEPT !.pc = "call"]
            /\ UNCHANGED <<chan, pass>>
    /\ UNCHANGED <<cfg, job, cancel_flag, prod, output_image, obs>>
    /\ UNCHANGED <<mirrorVars, cacheVars, cmdVars, sessVars, unitVars>>

\* inference_callback(batch) is entered   (image_processing.rs 245)
ConsumerCall ==
    /\ job.pc = "pass" /\ cons.pc = "call"
    /\ cons' = [cons EXCEPT !.pc = "infer"]
    /\ obs' = [obs EXCEPT
            !.tile_dims = @ \cup { <<cons.batch[i].width, cons.batch[i].height>> :
                                     i \in 1..Len(cons.batch) },
            !.batch_lens = @ \cup {Len(cons.batch)},
            !.calls = @ + 1,
            !.calls_after_cancel = IF cancel_flag THEN @ + 1 ELSE @]
    /\ UNCHANGED <<cfg, job, cancel_flag, pass, prod, chan, output_image>>
    /\ UNCHANGED <<mirrorVars, cacheVars, cmdVars, sessVars, unitVars>>

\* stitch_tile with the destination origin left in input pixels.
StitchRectUnscaledOrigin(meta) ==
    LET crop_w == meta.content_width * pass.scale
        crop_h == meta.content_height * pass.scale
        out_x == meta.x_index * pass.tile_size
        out_y == meta.y_index * pass.tile_size
    IN  [x |-> out_x, y |-> out_y,
         w |-> Min(crop_w, Max(pass.out_width - out_x, 0)),
         h |-> Min(crop_h, Max(pass.out_height - out_y, 0))]

\* The rectangle stitch_tile copies into the canvas   (image_processing.rs 338-367)
StitchRect(meta) ==
    LET crop_w == meta.content_width * pass.scale
        crop_h == meta.content_height * pass.scale
        out_x == meta.x_index * pass.tile_size * pass.scale
        out_y == meta.y_index * pass.tile_size * pass.scale
    IN  [x |-> out_x, y |-> out_y,
         w |-> Min(crop_w, Max(pass.out_width - out_x, 0)),
         h |-> Min(crop_h, Max(pass.out_height - out_y, 0))]

\* Pass 1 of a double upscale is given `|_| {}` as its progress callback; every
\* other pass is given the throttled progress_callback   (mod.rs 353, 369)
PassReports == ~(cfg.model_scale < cfg.target_scale /\ pass.no = 1)

\* if progress >= 1.0 || now.duration_since(last_update).as_millis() >= 100
\* { (callbacks.on_progress)(progress, ..) }: progress is processed / total as
\* f32, which is >= 1.0 exactly when processed >= total   (mod.rs 195-201)
Delivered(processed, total, elapsed) == processed >= total \/ elapsed

\* The callback error that is taken for a success.
CallbackFailedIgnored(ok, counted) == FALSE

\* inference_callback(batch)? fails, or returns a Vec of another length than
\* the batch: upscaled_tiles.len() != metadata_batch.len()
\* (image_processing.rs 245-249)
CallbackFailed(ok, counted) == ~ok \/ ~counted

\* Every tile of a batch is stitched where the first tile of the batch belongs.
MetaOfFirst(metadata_batch, i) == metadata_batch[1]

\* for (tile, meta) in upscaled_tiles.iter().zip(metadata_batch.iter()): the
\* i-th upscaled tile goes with the i-th metadata   (image_processing.rs 251)
MetaOf(metadata_batch, i) == metadata_batch[i]

\* inference_callback returns.  Its error is returned; a result of another
\* length is the error "Batch size mismatch"; otherwise every tile is
\* stitched and progress is reported   (image_processing.rs 245-256)
ConsumerInferred(ok, counted, elapsed) ==
    /\ job.pc = "pass" /\ cons.pc = "infer"
    /\ IF ~CallbackFailed(ok, counted)
       THEN /\ output_image' = output_image \o
                    [i \in 1..Len(cons.batch) |-> StitchRect(MetaOf(cons.batch, i))]
            /\ pass' = [pass EXCEPT !.processed_tiles = @ + Len(cons.batch)]
            /\ cons' = [cons EXCEPT !.pc = "recv", !.batch = <<>>]
            /\ obs' = [obs EXCEPT
                        !.progress =
                            IF PassReports /\ Delivered(pass.processed_tiles + Len(cons.batch),
                                                        pass.total_tiles, elapsed)
                            THEN <<pass.processed_tiles + Len(cons.batch), pass.total_tiles>>
                            ELSE @,
                        !.miscount = IF ok /\ ~counted THEN <<pass.no, obs.calls>> ELSE @]
            /\ UNCHANGED chan
       ELSE /\ ConsumerReturn(IF ok THEN Err("mismatch") ELSE Err("inference"))
            /\ obs' = [obs EXCEPT
                        !.error = <<pass.no, obs.calls>>,
                        !.miscount = IF ok /\ ~counted THEN <<pass.no, obs.calls>> ELSE @]
            /\ UNCHANGED output_image
    /\ UNCHANGED <<cfg, job, cancel_flag, prod>>
    /\ UNCHANGED <<mirrorVars, cacheVars, cmdVars, sessVars, unitVars>>

\* The error of a pass that is not propagated.
PassFailedIgnored == FALSE

\* image_processing::process_tiled(..)? returned Err   (mod.rs 314, 329, 358, 371)
PassFailed == pass.result[1] = "err"

\* thread::scope joins the producer, process_tiled returns, and the scaling
\* logic goes on   (image_processing.rs 259-261, mod.rs 303-375)
TiledEnd ==
    /\ job.pc = "pass" /\ cons.pc = "join" /\ prod.pc = "done"
    /\ IF PassFailed THEN Fail(pass.result[2])
       ELSE IF cfg.model_scale = cfg.target_scale
            THEN job' = [job EXCEPT !.pc = "finish", !.image = <<pass.out_width, pass.out_height>>]
       ELSE IF cfg.model_scale > cfg.target_scale
            THEN job' = [job EXCEPT !.pc = "resize", !.image = <<pass.out_width, pass.out_height>>]
       ELSE job' = [job EXCEPT !.pc = IF pass.no = 1 THEN "tiled" ELSE "finish",
                               !.image = <<pass.out_width, pass.out_height>>]
    /\ prod' = NoThread
    /\ cons' = NoThread
    /\ chan' = NoChan
    /\ UNCHANGED <<cfg, cancel_flag, pass, output_image, obs>>
    /\ UNCHANGED <<mirrorVars, cacheVars, cmdVars, sessVars, unitVars>>

\* The same product with the ratio inverted: model_scale / target_scale.
ResizeTargetInverted(extent, target_scale, model_scale) ==
    F32MulTrunc(extent, F32Div(model_scale, target_scale))

\* (w as f32 * (target_scale as f32 / model_scale as f32)) as u32   (mod.rs 332-333)
ResizeTarget(extent, target_scale, model_scale) ==
    F32MulTrunc(extent, F32Div(target_scale, model_scale))

\* CASE B: resize_image(&upscaled, target_w, target_h)   (mod.rs 331-344)
Resize ==
    /\ job.pc = "resize"
    /\ job' = [job EXCEPT !.pc = "finish",
                   !.image = <<ResizeTarget(job.image[1], cfg.target_scale, cfg.model_scale),
                               ResizeTarget(job.image[2], cfg.target_scale, cfg.model_scale)>>]
    /\ obs' = [obs EXCEPT !.resizes = Append(@,
                    [to |-> <<ResizeTarget(job.image[1], cfg.target_scale, cfg.model_scale),
                              ResizeTarget(job.image[2], cfg.target_scale, cfg.model_scale)>>,
                     after |-> Len(obs.passes)])]
    /\ UNCHANGED <<cfg, cancel_flag, pass, prod, chan, cons, output_image>>
    /\ UNCHANGED <<mirrorVars, cacheVars, cmdVars, sessVars, unitVars>>

\* process_with_session returns Ok(final_image)   (mod.rs 377-388)
Finish ==
    /\ job.pc = "finish"
    /\ job' = [job EXCEPT !.pc = "save", !.final = job.image, !.returned = Ok(0)]
    /\ UNCHANGED <<cfg, cancel_flag, pass, prod, chan, cons, output_image, obs>>
    /\ UNCHANGED <<mirrorVars, cacheVars, cmdVars, sessVars, unitVars>>

\* run: Self::save_result(final_image, config, path)   (mod.rs 463-464)
SaveResult(ok) ==
    /\ job.pc = "save"
    /\ job' = [job EXCEPT !.pc = "done", !.result = IF ok THEN Ok(0) ELSE Err("save")]
    /\ obs' = [obs EXCEPT !.saved = @ + 1]
    /\ UNCHANGED <<cfg, cancel_flag, pass, prod, chan, cons, output_image>>
    /\ UNCHANGED <<mirrorVars, cacheVars, cmdVars, sessVars, unitVars>>

\* Tiles the consumer has taken from the channel in the running pass.
Received ==
    pass.processed_tiles + (IF cons.pc \in {"check", "call", "infer"} THEN Len(cons.batch) ELSE 0)

\* process_tiled is running: the scope body has not returned.
InTiledPass == job.pc = "pass" /\ cons.pc # "join"

\* cancel_job: flag.store(true, Ordering::Relaxed), while the job is registered
\* (commands.rs 388-394)
Cancel ==
    /\ job.pc # "done"
    /\ ~cancel_flag
    /\ cancel_flag' = TRUE
    /\ obs' = [obs EXCEPT !.cancel_in_pass =
                    IF InTiledPass /\ Received < pass.total_tiles THEN pass.no ELSE 0]
    /\ UNCHANGED <<cfg, job, pass, prod, chan, cons, output_image>>
    /\ UNCHANGED <<mirrorVars, cacheVars, cmdVars, sessVars, unitVars>>

NextJob ==
    \/ \E ok \in BOOLEAN : LoadImage(ok)
    \/ Configure
    \/ \E ok \in BOOLEAN : TiledBegin(ok)
    \/ ProducerTile
    \/ ProducerSend
    \/ ProducerFinal
    \/ ConsumerRecv
    \/ ConsumerCheck
    \/ ConsumerCall
    \/ \E ok \in BOOLEAN, elapsed \in BOOLEAN : ConsumerInferred(ok, TRUE, elapsed)
    \/ TiledEnd
    \/ Resize
    \/ Finish
    \/ \E ok \in BOOLEAN : SaveResult(ok)
    \/ Cancel

(***************************************************************************)
(* commands.rs: upscale_image, upscale_multiple, cancel_job                *)
(***************************************************************************)
MaxPaths == 2

\* let job_id = id.unwrap_or_else(|| Uuid::new_v4().to_string());   (commands.rs 99, 210)
JobId == "job"

\* The requests the commands are given: a dynamic or a fixed-size model, and
\* a model scale equal to, above and below the target scale.
CommandConfigs ==
    { c \in Configs :
        /\ c.W = 1 /\ c.H = 1
        /\ c.batch_size = None /\ c.fixed_batch = None
        /\ c.fixed_input_size \in {None, Some(66)}
        /\ <<c.model_scale, c.target_scale>> \in {<<2, 2>>, <<4, 2>>, <<2, 4>>} }

\* The sizes of the image files: one tile, or several tiles under a fixed size.
ImageSizes == {<<1, 1>>, <<MaxW, 1>>}

NoCmd == [kind |-> "none", pc |-> "idle", n |-> 0, index |-> 0, awaited |-> 0,
          returned |-> Nothing]
NoEvents == [emitted |-> {}, polled_set |-> {}, inferring |-> {}, inferred_ok |-> {},
             interrupted |-> {}]

CmdIdle ==
    /\ running_jobs = {}
    /\ cmd = NoCmd
    /\ save_handles = <<>>
    /\ saves = [i \in 1..MaxPaths |-> "none"]
    /\ successful = <<>>
    /\ failed = <<>>
    /\ events = NoEvents

\* upscale_image entry: running_jobs.insert(job_id, cancel_flag)   (commands.rs 92-108)
UpscaleImageEnter(c, sz) ==
    /\ cmd.pc = "idle"
    /\ running_jobs' = running_jobs \cup {JobId}
    /\ cancel_flag' = FALSE
    /\ cfg' = [c EXCEPT !.W = sz[1], !.H = sz[2]]
    /\ cmd' = [NoCmd EXCEPT !.kind = "upscale_image", !.pc = "load_model", !.n = 1]
    /\ UNCHANGED <<job, pass, prod, chan, cons, output_image, obs>>
    /\ UNCHANGED <<save_handles, saves, successful, failed, events>>
    /\ UNCHANGED <<mirrorVars, cacheVars, sessVars, unitVars>>

\* upscale_multiple entry: running_jobs.insert(job_id, cancel_flag)   (commands.rs 203-224)
UpscaleMultipleEnter(n, c) ==
    /\ cmd.pc = "idle"
    /\ running_jobs' = running_jobs \cup {JobId}
    /\ cancel_flag' = FALSE
    /\ cfg' = c
    /\ cmd' = [NoCmd EXCEPT !.kind = "upscale_multiple", !.pc = "load_model", !.n = n]
    /\ UNCHANGED <<job, pass, prod, chan, cons, output_image, obs>>
    /\ UNCHANGED <<save_handles, saves, successful, failed, events>>
    /\ UNCHANGED <<mirrorVars, cacheVars, sessVars, unitVars>>

\* process_with_session is entered   (mod.rs 91-107)
StartJob ==
    /\ job' = NewJob
    /\ pass' = NoPass
    /\ prod' = NoThread
    /\ chan' = NoChan
    /\ cons' = NoThread
    /\ output_image' = <<>>
    /\ obs' = NoObs

\* UpscaleEngine::load_model(..): in upscale_multiple `.map_err(..)?` returns the
\* error at once (commands.rs 226-228); in upscale_image it is the first step
\* of UpscaleEngine::run (mod.rs 451-452), whose error `??` returns at once
\* (commands.rs 136-141).  Neither return passes through the cleanup block.
LoadModel(ok) ==
    /\ cmd.pc = "load_model"
    /\ IF ~ok
       THEN /\ cmd' = [cmd EXCEPT !.pc = "returned", !.returned = Err("model")]
            /\ UNCHANGED <<job, pass, prod, chan, cons, output_image, obs>>
       ELSE IF cmd.kind = "upscale_image"
       THEN /\ cmd' = [cmd EXCEPT !.pc = "run"]
            /\ StartJob
       ELSE /\ cmd' = [cmd EXCEPT !.pc = "loop"]
            /\ UNCHANGED <<job, pass, prod, chan, cons, output_image, obs>>
    /\ UNCHANGED <<cfg, cancel_flag>>
    /\ UNCHANGED <<running_jobs, save_handles, saves, successful, failed, events>>
    /\ UNCHANGED <<mirrorVars, cacheVars, sessVars, unitVars>>

\* UpscaleEngine::run, step 3: save_result, for upscale_image only   (mod.rs 463-464)
RunSave(ok) ==
    /\ cmd.kind = "upscale_image"
    /\ SaveResult(ok)

\* upscale_image: `.await.map_err(..)??`, then cleanup and Ok(result)
\* (commands.rs 136-150)
RunReturn ==
    /\ cmd.pc = "run"
    /\ job.pc = "done"
    /\ IF job.result[1] = "ok"
       THEN /\ running_jobs' = running_jobs \ {JobId}
            /\ cmd' = [cmd EXCEPT !.pc = "returned", !.returned = Ok(0)]
       ELSE /\ running_jobs' = running_jobs
            /\ cmd' = [cmd EXCEPT !.pc = "returned", !.returned = job.result]
    /\ UNCHANGED <<save_handles, saves, successful, failed, events>>
    /\ UNCHANGED <<mirrorVars, cacheVars, jobVars, sessVars, unitVars>>

\* The poll that never stops the loop.
PollNeverStops(flag) == FALSE

\* if cancel_flag.load(Ordering::Relaxed) { .. break; }   (commands.rs 234-237)
PollSaysStop(flag) == flag

\* Head of `for (index, path_str) in paths.into_iter().enumerate()`: the end of
\* the paths, or the cancel check   (commands.rs 232-237)
LoopCheck ==
    /\ cmd.kind = "upscale_multiple"
    /\ cmd.pc = "loop"
    /\ IF cmd.index = cmd.n \/ PollSaysStop(cancel_flag)
       THEN /\ cmd' = [cmd EXCEPT !.pc = "finalize"]
            /\ UNCHANGED events
       ELSE /\ cmd' = [cmd EXCEPT !.pc = "spawn"]
            /\ events' = [events EXCEPT !.polled_set =
                              IF cancel_flag THEN @ \cup {cmd.index + 1} ELSE @]
    /\ UNCHANGED <<running_jobs, save_handles, saves, successful, failed>>
    /\ UNCHANGED <<mirrorVars, cacheVars, jobVars, sessVars, unitVars>>

\* STEP 1: spawn_blocking(|| UpscaleEngine::process_with_session(..))
\* (commands.rs 239-299)
InferBegin(sz) ==
    /\ cmd.pc = "spawn"
    /\ cfg' = [cfg EXCEPT !.W = sz[1], !.H = sz[2]]
    /\ StartJob
    /\ cmd' = [cmd EXCEPT !.pc = "infer"]
    /\ events' = [events EXCEPT !.inferring = @ \cup {cmd.index + 1}]
    /\ UNCHANGED cancel_flag
    /\ UNCHANGED <<running_jobs, save_handles, saves, successful, failed>>
    /\ UNCHANGED <<mirrorVars, cacheVars, sessVars, unitVars>>

\* The failure that is not recorded.
RecordFailureDropped(fl, i, e) == fl

\* failed.push((path_str, e.to_string()))   (commands.rs 340, 354, 370, 373)
RecordFailure(fl, i, e) == Append(fl, [path |-> i, reason |-> e])

\* `.await` of the inference task: process_with_session has returned
\* (commands.rs 300-301)
InferenceReturned == job.returned # Nothing

\* match inference_result: Ok(Ok(final_image)) spawns the save task and pushes
\* its handle; Ok(Err(e)) pushes (path, e) to failed and emits file-error
\* (commands.rs 303-359)
InferEnd ==
    /\ cmd.pc = "infer"
    /\ InferenceReturned
    /\ LET i == cmd.index + 1
       IN  /\ IF job.returned[1] = "ok"
              THEN /\ saves' = [saves EXCEPT ![i] = "running"]
                   /\ save_handles' = Append(save_handles, i)
                   /\ failed' = failed
                   /\ events' = [events EXCEPT
                          !.inferring = @ \ {i},
                          !.inferred_ok = @ \cup {i},
                          !.interrupted =
                              IF cancel_flag /\ pass.processed_tiles < pass.total_tiles
                              THEN @ \cup {i} ELSE @]
              ELSE /\ failed' = RecordFailure(failed, i, job.returned[2])
                   /\ UNCHANGED <<saves, save_handles>>
                   /\ events' = [events EXCEPT
                          !.inferring = @ \ {i},
                          !.emitted = @ \cup {<<"file-error", i>>},
                          !.interrupted =
                              IF job.returned = Err("cancelled") THEN @ \cup {i} ELSE @]
           /\ cmd' = [cmd EXCEPT !.pc = "loop", !.index = i]
    /\ job' = [job EXCEPT !.pc = "done"]
    /\ UNCHANGED <<cfg, cancel_flag, pass, prod, chan, cons, output_image, obs>>
    /\ UNCHANGED <<running_jobs, successful>>
    /\ UNCHANGED <<mirrorVars, cacheVars, sessVars, unitVars>>

\* STEP 2: the background task: save_result, then file-complete or file-error
\* (commands.rs 311-336)
SaveTask(i, ok) ==
    /\ saves[i] = "running"
    /\ saves' = [saves EXCEPT ![i] = IF ok THEN "ok" ELSE "err"]
    /\ events' = [events EXCEPT !.emitted =
                      @ \cup {<<IF ok THEN "file-complete" ELSE "file-error", i>>}]
    /\ UNCHANGED <<running_jobs, cmd, save_handles, successful, failed>>
    /\ UNCHANGED <<mirrorVars, cacheVars, jobVars, sessVars, unitVars>>

\* The await that does not wait for the save task.
SaveNotAwaited(st) == TRUE

\* handle.await   (commands.rs 364-365)
SaveFinished(st) == st \in {"ok", "err"}

\* STEP 3: for (path_str, handle) in save_handles { match handle.await {..} }
\* (commands.rs 364-376)
AwaitSave ==
    /\ cmd.pc = "finalize"
    /\ cmd.awaited < Len(save_handles)
    /\ LET i == save_handles[cmd.awaited + 1]
       IN  /\ SaveFinished(saves[i])
           /\ IF saves[i] = "ok"
              THEN /\ successful' = Append(successful, i)
                   /\ failed' = failed
              ELSE /\ failed' = RecordFailure(failed, i, "save")
                   /\ successful' = successful
    /\ cmd' = [cmd EXCEPT !.awaited = @ + 1]
    /\ UNCHANGED <<running_jobs, save_handles, saves, events>>
    /\ UNCHANGED <<mirrorVars, cacheVars, jobVars, sessVars, unitVars>>

\* Cleanup: running_jobs.remove(&job_id); Ok(BatchReport { successful, failed })
\* (commands.rs 378-384)
BatchReturn ==
    /\ cmd.pc = "finalize"
    /\ cmd.awaited = Len(save_handles)
    /\ running_jobs' = running_jobs \ {JobId}
    /\ cmd' = [cmd EXCEPT !.pc = "returned", !.returned = Ok(0)]
    /\ UNCHANGED <<save_handles, saves, successful, failed, events>>
    /\ UNCHANGED <<mirrorVars, cacheVars, jobVars, sessVars, unitVars>>

\* cancel_job: if let Some(flag) = running_jobs.get(&job_id) { flag.store(true) }
\* (commands.rs 388-394)
CancelJob ==
    /\ JobId \in running_jobs
    /\ ~cancel_flag
    /\ cancel_flag' = TRUE
    /\ obs' = [obs EXCEPT !.cancel_in_pass =
                    IF InTiledPass /\ Received < pass.total_tiles THEN pass.no ELSE 0]
    /\ UNCHANGED <<cfg, job, pass, prod, chan, cons, output_image>>
    /\ UNCHANGED <<mirrorVars, cacheVars, cmdVars, sessVars, unitVars>>

NextCommands ==
    \/ \E c \in CommandConfigs, sz \in ImageSizes : UpscaleImageEnter(c, sz)
    \/ \E n \in 0..MaxPaths, c \in CommandConfigs : UpscaleMultipleEnter(n, c)
    \/ \E ok \in BOOLEAN : LoadModel(ok)
    \/ \E ok \in BOOLEAN : LoadImage(ok)
    \/ Configure
    \/ \E ok \in BOOLEAN : TiledBegin(ok)
    \/ ProducerTile
    \/ ProducerSend
    \/ ProducerFinal
    \/ ConsumerRecv
    \/ ConsumerCheck
    \/ ConsumerCall
    \/ \E ok \in BOOLEAN, elapsed \in BOOLEAN : ConsumerInferred(ok, TRUE, elapsed)
    \/ TiledEnd
    \/ Resize
    \/ Finish
    \/ \E ok \in BOOLEAN : RunSave(ok)
    \/ RunReturn
    \/ LoopCheck
    \/ \E sz \in ImageSizes : InferBegin(sz)
    \/ InferEnd
    \/ \E i \in 1..MaxPaths, ok \in BOOLEAN : SaveTask(i, ok)
    \/ AwaitSave
    \/ BatchReturn
    \/ CancelJob

(***************************************************************************)
(* inference.rs: OrtSession { session: Mutex<Session>, .. }                *)
(***************************************************************************)
MaxCalls == 2

\* The threads that hold an Arc<OrtSession>: the consumers of two jobs.
Threads == {"job1", "job2"}
SessionIds == {1, 2}
SessionOps == {"run_inference", "run_with_binding", "detect_scale"}

\* let test_sizes = [64, 256, 512];   (inference.rs 315)
TestSizes == <<64, 256, 512>>

NoHolder == "none"
NoThr == [pc |-> "idle", op |-> "none", s |-> 0, size |-> 0, waited |-> FALSE,
          ret |-> Nothing, calls |-> 0]

SessIdle ==
    /\ session_lock = [s \in SessionIds |-> [holder |-> NoHolder, poisoned |-> FALSE]]
    /\ thr = [t \in Threads |-> NoThr]
    /\ fwd = [s \in SessionIds |-> {}]

\* A thread calls run_inference, run_with_binding or detect_scale on a session
\* (inference.rs 257-261, 270-275, 305)
CallBegin(t, op, s) ==
    /\ thr[t].pc = "idle"
    /\ thr[t].calls < MaxCalls
    /\ thr' = [thr EXCEPT ![t] = [@ EXCEPT !.pc = "lock", !.op = op, !.s = s, !.size = 1,
                                           !.waited = FALSE, !.ret = Nothing]]
    /\ UNCHANGED <<session_lock, fwd>>
    /\ UNCHANGED <<mirrorVars, cacheVars, jobVars, cmdVars, unitVars>>

\* The lock that is handed out whoever holds it.
CanLockAlways(m) == TRUE

\* Mutex::lock returns once no thread holds the mutex
CanLock(m) == m.holder = NoHolder

\* self.session.lock(): the mutex is held by another thread, the caller parks
\* (inference.rs 262-264, 276-278, 306-308)
LockWait(t) ==
    /\ thr[t].pc = "lock"
    /\ ~thr[t].waited
    /\ ~CanLock(session_lock[thr[t].s])
    /\ thr' = [thr EXCEPT ![t].waited = TRUE]
    /\ UNCHANGED <<session_lock, fwd>>
    /\ UNCHANGED <<mirrorVars, cacheVars, jobVars, cmdVars, unitVars>>

\* self.session.lock().map_err(|_| "Failed to lock session")?: the guard, or
\* the error of a poisoned mutex.  No code that runs under the guard panics,
\* so no step of this model poisons a mutex.
\* (inference.rs 262-265, 276-279, 306-309)
Lock(t) ==
    /\ thr[t].pc = "lock"
    /\ CanLock(session_lock[thr[t].s])
    /\ IF session_lock[thr[t].s].poisoned
       THEN /\ thr' = [thr EXCEPT ![t] = [@ EXCEPT !.pc = "idle", !.ret = Err("lock"),
                                                  !.calls = @ + 1]]
            /\ UNCHANGED session_lock
       ELSE /\ thr' = [thr EXCEPT ![t].pc = "inner"]
            /\ session_lock' = [session_lock EXCEPT ![thr[t].s].holder = t]
    /\ UNCHANGED fwd
    /\ UNCHANGED <<mirrorVars, cacheVars, jobVars, cmdVars, unitVars>>

\* run_inference_inner: session.run(inputs![..]) begins   (inference.rs 186-222)
ForwardBegin(t) ==
    /\ thr[t].pc = "inner"
    /\ thr' = [thr EXCEPT ![t].pc = "running"]
    /\ fwd' = [fwd EXCEPT ![thr[t].s] = @ \cup {t}]
    /\ UNCHANGED session_lock
    /\ UNCHANGED <<mirrorVars, cacheVars, jobVars, cmdVars, unitVars>>

\* run_inference_inner returns.  run_inference and run_with_binding return its
\* result (inference.rs 266, 282-301); detect_scale returns the scale on Ok
\* and tries the next test size on Err, returning the last error after the
\* third (inference.rs 317-352)
ForwardEnd(t, ok) ==
    /\ thr[t].pc = "running"
    /\ fwd' = [fwd EXCEPT ![thr[t].s] = @ \ {t}]
    /\ IF ok
       THEN thr' = [thr EXCEPT ![t] = [@ EXCEPT !.pc = "unlock", !.ret = Ok(0)]]
       ELSE IF thr[t].op = "detect_scale" /\ thr[t].size < Len(TestSizes)
       THEN thr' = [thr EXCEPT ![t] = [@ EXCEPT !.pc = "inner", !.size = @ + 1]]
       ELSE thr' = [thr EXCEPT ![t] = [@ EXCEPT !.pc = "unlock", !.ret = Err("ort")]]
    /\ UNCHANGED session_lock
    /\ UNCHANGED <<mirrorVars, cacheVars, jobVars, cmdVars, unitVars>>

\* The MutexGuard is dropped as the function returns
\* (inference.rs 267, 302, 353)
Unlock(t) ==
    /\ thr[t].pc = "unlock"
    /\ session_lock' = [session_lock EXCEPT ![thr[t].s].holder = NoHolder]
    /\ thr' = [thr EXCEPT ![t] = [@ EXCEPT !.pc = "idle", !.calls = @ + 1]]
    /\ UNCHANGED fwd
    /\ UNCHANGED <<mirrorVars, cacheVars, jobVars, cmdVars, unitVars>>

NextSession ==
    \/ \E t \in Threads, op \in SessionOps, s \in SessionIds : CallBegin(t, op, s)
    \/ \E t \in Threads : LockWait(t)
    \/ \E t \in Threads : Lock(t)
    \/ \E t \in Threads : ForwardBegin(t)
    \/ \E t \in Threads, ok \in BOOLEAN : ForwardEnd(t, ok)
    \/ \E t \in Threads : Unlock(t)

\* Every thread that can take a step is scheduled eventually; a forward pass
\* terminates.
FairSession ==
    \A t \in Threads :
        /\ WF_vars(Lock(t))
        /\ WF_vars(ForwardBegin(t))
        /\ WF_vars(\E ok \in BOOLEAN : ForwardEnd(t, ok))
        /\ WF_vars(Unlock(t))

(***************************************************************************)
(* process_tiled up to the allocation of the canvas                        *)
(* (image_processing.rs 135-165)                                           *)
(***************************************************************************)
\* 1024 * 1024 * 100: the headroom added to the size of the canvas
Headroom == 1024 * 1024 * 100

\* The divisor applied to required_memory before the comparison
KiB == 1024

NoMem == [pc |-> "idle"]

\* let required_memory = (out_width as u64 * out_height as u64 * 3) + (1024 * 1024 * 100)
RequiredMemory(out_width, out_height) == out_width * out_height * 3 + Headroom

\* sys.available_memory() < required_memory / 1024
MemoryInsufficient(available, required) == available < required \div KiB

\* The values sys.available_memory() may return that lie around the two
\* thresholds required / 1024 and required, and far from them
AvailableAround(required) ==
    {0, required \div KiB - 1, required \div KiB, required \div KiB + 1,
     required - 1, required, required + 1}

\* process_tiled is entered with an image, a scale and some available memory
InitPreflight ==
    mem \in UNION { { [pc |-> "check", width |-> w, height |-> h, scale |-> s,
                       available |-> a, canvas |-> None, ret |-> Nothing] :
                        a \in AvailableAround(RequiredMemory(w * s, h * s)) } :
                    w \in 1..MaxW, h \in 1..MaxH, s \in Scales }

\* Lines 150-163: out_width, out_height, required_memory, the comparison
MemoryCheck ==
    /\ mem.pc = "check"
    /\ LET out_width  == mem.width * mem.scale
           out_height == mem.height * mem.scale
           required   == RequiredMemory(out_width, out_height)
       IN  mem' = IF MemoryInsufficient(mem.available, required)
                  THEN [mem EXCEPT !.pc = "done", !.ret = Err("insufficient_memory")]
                  ELSE [mem EXCEPT !.pc = "alloc"]
    /\ UNCHANGED <<scan, ort, probe, batch, stitch, registry>>
    /\ UNCHANGED <<mirrorVars, cacheVars, jobVars, cmdVars, sessVars>>

\* Line 165: let mut output_image = ImageBuffer::new(out_width, out_height)
AllocateCanvas ==
    /\ mem.pc = "alloc"
    /\ mem' = [mem EXCEPT !.pc = "tiles",
                          !.canvas = Some(<<mem.width * mem.scale, mem.height * mem.scale>>)]
    /\ UNCHANGED <<scan, ort, probe, batch, stitch, registry>>
    /\ UNCHANGED <<mirrorVars, cacheVars, jobVars, cmdVars, sessVars>>

NextPreflight ==
    \/ MemoryCheck
    \/ AllocateCanvas

(***************************************************************************)
(* The scale of a model file: UpscaleEngine::load_model (engine/mod.rs     *)
(* 50-72), preload_model (commands.rs 49-80), ModelScanner::scan_file      *)
(* (models.rs 85-102)                                                      *)
(***************************************************************************)
\* The longest file stem drawn
MaxName == 4

\* The characters file stems are made of
NameChars == {"x", "2", "3", "_"}

\* The extension every model file carries (load_model appends it when the
\* configured name lacks it; scan_file rejects any other)
OnnxExt == <<".", "o", "n", "n", "x">>

ModelFilenames == { stem \o OnnxExt : stem \in UNION { [1..n -> NameChars] : n \in 0..MaxName } }

\* str::contains
Contains(s, pat) ==
    \E i \in 1..(Len(s) - Len(pat) + 1) : SubSeq(s, i, i + Len(pat) - 1) = pat

\* What AppState::get_model_scale returns to the caller: a cached or probed
\* scale, the error of detect_scale, or the negative-cache error
\* (state.rs 148-184)
ScaleLookups == { Ok(s) : s \in Scales } \cup { Err("detect_scale"), Err("negative_cache") }

\* if filename.contains("x2") { 2 } else if filename.contains("x3") { 3 } else { 4 }
\* (commands.rs 72-78, models.rs 95-101)
ScaleFromFilename(filename) ==
    IF Contains(filename, <<"x", "2">>) THEN 2
    ELSE IF Contains(filename, <<"x", "3">>) THEN 3
    ELSE 4

\* if model_filename.contains("x2") { 2 } else { 4 }   (engine/mod.rs 72)
ScaleFromFilenameX2(filename) ==
    IF Contains(filename, <<"x", "2">>) THEN 2 ELSE 4

NoScan == [pc |-> "idle"]

\* An entry point is about to resolve the scale of a model file; load_model and
\* preload_model have asked get_model_scale, scan_file asks nothing.
InitScan ==
    scan \in { [pc |-> "resolve", entry |-> e, filename |-> f, lookup |-> l, scale |-> 0] :
                 e \in {"load_model", "preload_model"}, f \in ModelFilenames, l \in ScaleLookups }
             \cup
             { [pc |-> "resolve", entry |-> "scan_file", filename |-> f, lookup |-> Nothing,
                scale |-> 0] : f \in ModelFilenames }

\* load_model: .get_model_scale(..).unwrap_or_else(|_| ..)   (engine/mod.rs 70-72)
LoadModelScale ==
    /\ scan.pc = "resolve" /\ scan.entry = "load_model"
    /\ scan' = [scan EXCEPT !.pc = "done",
                            !.scale = IF scan.lookup[1] = "ok" THEN scan.lookup[2]
                                      ELSE ScaleFromFilenameX2(scan.filename)]
    /\ UNCHANGED <<mem, ort, probe, batch, stitch, registry>>
    /\ UNCHANGED <<mirrorVars, cacheVars, jobVars, cmdVars, sessVars>>

\* preload_model: match state.get_model_scale(..) { Ok(s) => s, Err(e) => .. }
\* (commands.rs 62-80)
PreloadModelScale ==
    /\ scan.pc = "resolve" /\ scan.entry = "preload_model"
    /\ scan' = [scan EXCEPT !.pc = "done",
                            !.scale = IF scan.lookup[1] = "ok" THEN scan.lookup[2]
                                      ELSE ScaleFromFilename(scan.filename)]
    /\ UNCHANGED <<mem, ort, probe, batch, stitch, registry>>
    /\ UNCHANGED <<mirrorVars, cacheVars, jobVars, cmdVars, sessVars>>

\* scan_file: the scale of the manifest   (models.rs 95-101)
ScanFileScale ==
    /\ scan.pc = "resolve" /\ scan.entry = "scan_file"
    /\ scan' = [scan EXCEPT !.pc = "done", !.scale = ScaleFromFilename(scan.filename)]
    /\ UNCHANGED <<mem, ort, probe, batch, stitch, registry>>
    /\ UNCHANGED <<mirrorVars, cacheVars, jobVars, cmdVars, sessVars>>

NextScan ==
    \/ LoadModelScale
    \/ PreloadModelScale
    \/ ScanFileScale

(***************************************************************************)
(* OrtSession::new (inference.rs 40-183)                                   *)
(***************************************************************************)
Platforms == {"windows", "linux", "macos"}

\* The provider blocks of OrtSession::new in program order, each with the
\* target_os it is compiled for and whether it sits inside `if prefer_npu`
\* (inference.rs 66-156)
ProviderBlocks ==
    << [os |-> "windows", npu |-> TRUE,  name |-> "OpenVINO (NPU/Auto)"],
       [os |-> "macos",   npu |-> TRUE,  name |-> "CoreML (Neural Engine)"],
       [os |-> "windows", npu |-> FALSE, name |-> "DirectML (GPU)"],
       [os |-> "linux",   npu |-> FALSE, name |-> "ROCm (AMD)"],
       [os |-> "linux",   npu |-> FALSE, name |-> "CUDA (NVIDIA)"],
       [os |-> "macos",   npu |-> FALSE, name |-> "CoreML (NPU/GPU)"],
       [os |-> "linux",   npu |-> FALSE, name |-> "OpenVINO (Intel)"] >>

\* #[cfg(target_os = ..)]: the blocks the build for a platform contains
BlockCompiled(b, platform) == b.os = platform

CompiledBlocks(platform) ==
    SelectSeq(ProviderBlocks, LAMBDA b : BlockCompiled(b, platform))

NoOrt == [pc |-> "idle"]

\* OrtSession::new(model_path, prefer_npu) is called on some platform
InitOrt ==
    ort \in { [pc |-> "builder", platform |-> p, prefer_npu |-> n, block |-> 1,
               attempts |-> <<>>, session |-> None, ret |-> Nothing] :
                p \in Platforms, n \in BOOLEAN }

\* SessionBuilder::new()?.with_optimization_level(..)?. .. ?   (lines 46-55)
BuildSession(ok) ==
    /\ ort.pc = "builder"
    /\ ort' = IF ok THEN [ort EXCEPT !.pc = "providers"]
                    ELSE [ort EXCEPT !.pc = "done", !.ret = Err("builder")]
    /\ UNCHANGED <<mem, scan, probe, batch, stitch, registry>>
    /\ UNCHANGED <<mirrorVars, cacheVars, jobVars, cmdVars, sessVars>>

\* A provider is tried whatever the providers before it did.
SessionAlwaysNone(s) == TRUE

\* if session.is_none()
SessionIsNone(s) == s = None

\* One provider block: if session.is_none() { if let Ok(b) = builder.clone()
\* .with_execution_providers([..]) { if let Some(s) = try_provider(name, b)
\* { session = Some(s) } } }; `registered` is the result of
\* with_execution_providers, `commits` that of commit_from_file.
TryProvider(registered, commits) ==
    /\ ort.pc = "providers"
    /\ LET blocks == CompiledBlocks(ort.platform)
           b      == blocks[ort.block]
           runs   == (b.npu => ort.prefer_npu) /\ SessionIsNone(ort.session)
           next   == IF ort.block = Len(blocks) THEN "cpu" ELSE "providers"
       IN  /\ ort.block <= Len(blocks)
           \* the results are drawn only for a block that runs
           /\ ~runs => (registered /\ commits)
           /\ ~registered => commits
           /\ ort' = [ort EXCEPT
                        !.pc = next,
                        !.block = @ + 1,
                        !.attempts =
                            IF ~runs THEN @
                            ELSE Append(@, [name |-> b.name,
                                            outcome |-> IF ~registered THEN "unavailable"
                                                        ELSE IF commits THEN "committed"
                                                        ELSE "failed"]),
                        !.session = IF runs /\ registered /\ commits THEN Some(b.name) ELSE @]
    /\ UNCHANGED <<mem, scan, probe, batch, stitch, registry>>
    /\ UNCHANGED <<mirrorVars, cacheVars, jobVars, cmdVars, sessVars>>

\* Fallback to CPU: builder.commit_from_file(model_path).map_err(AppError::from)?
\* unless a provider has committed   (lines 159-166)
CpuFallback(commits) ==
    /\ ort.pc = "cpu"
    /\ IF ort.session # None
       THEN /\ commits
            /\ ort' = [ort EXCEPT !.pc = "inspect"]
       ELSE ort' = [ort EXCEPT
                      !.attempts = Append(@, [name |-> "CPU",
                                              outcome |-> IF commits THEN "committed"
                                                          ELSE "failed"]),
                      !.session = IF commits THEN Some("CPU") ELSE @,
                      !.pc = IF commits THEN "inspect" ELSE "done",
                      !.ret = IF commits THEN @ ELSE Err("commit")]
    /\ UNCHANGED <<mem, scan, probe, batch, stitch, registry>>
    /\ UNCHANGED <<mirrorVars, cacheVars, jobVars, cmdVars, sessVars>>

\* session.inputs[0].input_type: Ok(Self { execution_provider: provider, .. })
\* for a tensor, Err("Model input is not a tensor") otherwise   (lines 168-182)
InspectInput(is_tensor) ==
    /\ ort.pc = "inspect"
    /\ ort' = [ort EXCEPT !.pc = "done",
                          !.ret = IF is_tensor
                                  THEN Ok([execution_provider |-> ort.session[1]])
                                  ELSE Err("not_a_tensor")]
    /\ UNCHANGED <<mem, scan, probe, batch, stitch, registry>>
    /\ UNCHANGED <<mirrorVars, cacheVars, jobVars, cmdVars, sessVars>>

NextOrt ==
    \/ \E ok \in BOOLEAN : BuildSession(ok)
    \/ \E registered, commits \in BOOLEAN : TryProvider(registered, commits)
    \/ \E commits \in BOOLEAN : CpuFallback(commits)
    \/ \E is_tensor \in BOOLEAN : InspectInput(is_tensor)

(***************************************************************************)
(* OrtSession::detect_scale (inference.rs 305-352)                         *)
(***************************************************************************)
ElementTypes == {"Float16", "Float32"}

\* The errors run_inference_inner may return for an input (inference.rs 186-254)
RunErrors == {"invalid_dimensions", "ort"}

\* The output shapes a run on [1, 3, s, s] may give: [1, 3, H', W'] with W' a
\* multiple of s or not, with H' equal to W' or not, and shapes of fewer than
\* four dimensions
OutputShapes(s) ==
    LET widths == { s * k : k \in 1..MaxProbeScale } \cup { s \div 2, 2 * s + s \div 2 }
    IN  { <<1, 3, h, w>> : h \in {s, 2 * s}, w \in widths } \cup { <<3, 2 * s, 2 * s>> }

RunOutcomes(s) ==
    { Ok(shape) : shape \in OutputShapes(s) } \cup { Err(<<e, s>>) : e \in RunErrors }

NoProbe == [pc |-> "idle"]

\* detect_scale is called on a session
InitProbe ==
    probe \in { [pc |-> "lock", input_type |-> ty, size |-> 1, input |-> None,
                 runs |-> <<>>, last_error |-> <<"No sizes tested", 0>>, ret |-> Nothing] :
                  ty \in ElementTypes }

\* self.session.lock().map_err(|_| "Failed to lock session")?   (lines 306-309)
ProbeLock(ok) ==
    /\ probe.pc = "lock"
    /\ probe' = IF ok THEN [probe EXCEPT !.pc = "input"]
                      ELSE [probe EXCEPT !.pc = "done", !.ret = Err(<<"lock", 0>>)]
    /\ UNCHANGED <<mem, scan, ort, batch, stitch, registry>>
    /\ UNCHANGED <<mirrorVars, cacheVars, jobVars, cmdVars, sessVars>>

\* for &input_dim in &test_sizes: input_shape, pixel_count, input_data
\* (lines 318-328); after the last size: Err(last_error)   (line 351)
ProbeInput ==
    /\ probe.pc = "input"
    /\ IF probe.size <= Len(TestSizes)
       THEN LET input_dim == TestSizes[probe.size]
            IN  probe' = [probe EXCEPT
                            !.pc = "run",
                            !.input = Some([shape |-> <<1, 3, input_dim, input_dim>>,
                                            len |-> input_dim * input_dim * 3,
                                            type |-> IF probe.input_type = "Float16"
                                                     THEN "Float16" ELSE "Float32",
                                            value |-> 0])]
       ELSE probe' = [probe EXCEPT !.pc = "done", !.ret = Err(probe.last_error)]
    /\ UNCHANGED <<mem, scan, ort, batch, stitch, registry>>
    /\ UNCHANGED <<mirrorVars, cacheVars, jobVars, cmdVars, sessVars>>

\* No run counts as a success.
RunNeverSucceeded(outcome) == FALSE

\* Ok((output_shape, _)) => ..   (line 332)
RunSucceeded(outcome) == outcome[1] = "ok"

\* match self.run_inference_inner(&mut *session, input_shape, input_data)
\* (lines 331-347)
ProbeRun(outcome) ==
    /\ probe.pc = "run"
    /\ LET input_dim == probe.input[1].shape[3]
       IN  /\ outcome \in RunOutcomes(input_dim)
           /\ probe' =
                 [ [probe EXCEPT !.runs = Append(@, [input |-> probe.input[1],
                                                     outcome |-> outcome])]
                   EXCEPT
                     !.pc = IF RunSucceeded(outcome) THEN "done" ELSE "input",
                     !.size = IF RunSucceeded(outcome) THEN @ ELSE @ + 1,
                     !.last_error = IF RunSucceeded(outcome) THEN @ ELSE outcome[2],
                     !.ret = IF ~RunSucceeded(outcome) THEN @
                             ELSE IF Len(outcome[2]) < 4
                             THEN Err(<<"Invalid output shape from model", input_dim>>)
                             ELSE Ok(outcome[2][4] \div input_dim) ]
    /\ UNCHANGED <<mem, scan, ort, batch, stitch, registry>>
    /\ UNCHANGED <<mirrorVars, cacheVars, jobVars, cmdVars, sessVars>>

NextProbe ==
    \/ \E ok \in BOOLEAN : ProbeLock(ok)
    \/ ProbeInput
    \/ \E outcome \in UNION { RunOutcomes(TestSizes[i]) : i \in 1..Len(TestSizes) } :
          ProbeRun(outcome)

(***************************************************************************)
(* images_to_buffer (inference.rs 422-498)                                 *)
(***************************************************************************)
\* The largest batch drawn
MaxImages == 2

\* The longest side of an image drawn
MaxSide == 2

\* The first byte of an image's raw data; the bytes that follow count up from
\* it, so that every byte of an image is distinct
RawBases == {0, 100}

\* rgb.as_raw(): the bytes of an RGB8 image, row by row, three per pixel
RawPixels(width, height, base) == [k \in 1..(width * height * 3) |-> (base + k - 1) % 256]

Images ==
    { [width |-> w, height |-> h, raw |-> RawPixels(w, h, b)] :
        w \in 1..MaxSide, h \in 1..MaxSide, b \in RawBases }

ImageBatches == UNION { [1..n -> Images] : n \in 0..MaxImages }

\* An element a recycled buffer holds from an earlier batch
Stale == [type |-> "stale", num |-> 0, den |-> 1]

\* The lengths of the recycled buffer: empty, shorter and longer than any batch
BufferLens == {0, 1, MaxImages * MaxSide * MaxSide * 3 + 1}

\* lut[v] = v as f32 / 255.0, stored as f32 or converted by f16::from_f32
\* (inference.rs 410-420, 456-458, 481-483)
Normalised(v, type) == [type |-> type, num |-> v, den |-> 255]

NoBatch == [pc |-> "idle"]

\* images_to_buffer(images, target_type, buffer) is called
InitBatch ==
    batch \in { [pc |-> "check", images |-> imgs, target_type |-> ty,
                 buffer |-> [type |-> bt, data |-> [k \in 1..len |-> Stale]],
                 width |-> 0, height |-> 0, written |-> {}, ret |-> Nothing] :
                  imgs \in ImageBatches, ty \in ElementTypes, bt \in ElementTypes,
                  len \in BufferLens }

\* if images.is_empty() ..; let (width, height) = images[0].dimensions();
\* for (i, img) in images.iter().enumerate() { if img.dimensions() != .. }
\* (lines 427-446)
CheckBatch ==
    /\ batch.pc = "check"
    /\ batch' =
          IF batch.images = <<>>
          THEN [batch EXCEPT !.pc = "done", !.ret = Err("no_images")]
          ELSE LET width  == batch.images[1].width
                   height == batch.images[1].height
               IN  IF \E i \in 1..Len(batch.images) :
                         <<batch.images[i].width, batch.images[i].height>> # <<width, height>>
                   THEN [batch EXCEPT !.pc = "done", !.ret = Err("dimension_mismatch")]
                   ELSE [batch EXCEPT !.pc = "match", !.width = width, !.height = height]
    /\ UNCHANGED <<mem, scan, ort, probe, stitch, registry>>
    /\ UNCHANGED <<mirrorVars, cacheVars, jobVars, cmdVars, sessVars>>

\* match (target_type, buffer): the two arms whose types agree resize the
\* buffer when it is shorter than total_elements; any other pair is an error
\* (lines 448-455, 474-477, 493-497)
MatchTypes ==
    /\ batch.pc = "match"
    /\ LET pixel_count        == batch.width * batch.height
           elements_per_image == pixel_count * 3
           total_elements     == Len(batch.images) * elements_per_image
           data               == batch.buffer.data
           zero               == Normalised(0, batch.target_type)
       IN  batch' =
              IF batch.buffer.type # batch.target_type
              THEN [batch EXCEPT !.pc = "done", !.ret = Err("buffer_type_mismatch")]
              ELSE [batch EXCEPT
                      !.pc = "fill",
                      !.buffer.data =
                          IF Len(data) < total_elements
                          THEN [k \in 1..total_elements |->
                                   IF k <= Len(data) THEN data[k] ELSE zero]
                          ELSE data]
    /\ UNCHANGED <<mem, scan, ort, probe, stitch, registry>>
    /\ UNCHANGED <<mirrorVars, cacheVars, jobVars, cmdVars, sessVars>>

\* The three channels of a pixel side by side.
InterleavedIndex(i, c, pixel_count) == i * 3 + c

\* r_plane[i], g_plane[i], b_plane[i] of dest_slice: split_at_mut(pixel_count)
\* twice   (lines 462-469)
PlaneIndex(i, c, pixel_count) == c * pixel_count + i

\* One (dest_slice, img) pair of par_chunks_mut(elements_per_image).zip(images):
\* the pairs are independent and are run in any order   (lines 457-470, 479-492)
FillImage(n) ==
    /\ batch.pc = "fill"
    /\ n \in (0..(Len(batch.images) - 1)) \ batch.written
    /\ LET pixel_count        == batch.width * batch.height
           elements_per_image == pixel_count * 3
           raw_pixels         == batch.images[n + 1].raw
           \* the pixel and channel written to an offset of dest_slice
           src(off) == CHOOSE p \in (0..(pixel_count - 1)) \X (0..2) :
                           PlaneIndex(p[1], p[2], pixel_count) = off
       IN  batch' = [batch EXCEPT
                       !.written = @ \cup {n},
                       !.buffer.data =
                           [k \in 1..Len(@) |->
                               IF k - 1 \in (n * elements_per_image)..
                                                ((n + 1) * elements_per_image - 1)
                               THEN LET p == src(k - 1 - n * elements_per_image)
                                    IN  Normalised(raw_pixels[p[1] * 3 + p[2] + 1],
                                                   batch.target_type)
                               ELSE @[k]]]
    /\ UNCHANGED <<mem, scan, ort, probe, stitch, registry>>
    /\ UNCHANGED <<mirrorVars, cacheVars, jobVars, cmdVars, sessVars>>

\* let shape = vec![batch_size as i64, 3, height as i64, width as i64]; Ok(shape)
\* (lines 472-473, 494-495)
ReturnShape ==
    /\ batch.pc = "fill"
    /\ batch.written = 0..(Len(batch.images) - 1)
    /\ batch' = [batch EXCEPT !.pc = "done",
                              !.ret = Ok(<<Len(batch.images), 3, batch.height, batch.width>>)]
    /\ UNCHANGED <<mem, scan, ort, probe, stitch, registry>>
    /\ UNCHANGED <<mirrorVars, cacheVars, jobVars, cmdVars, sessVars>>

NextBatch ==
    \/ CheckBatch
    \/ MatchTypes
    \/ \E n \in 0..(MaxImages - 1) : FillImage(n)
    \/ ReturnShape

(***************************************************************************)
(* image_processing.rs: stitch_tile, one call: the crop of the upscaled    *)
(* tile, then the copy row by row.  The canvas, the padding and the tile's *)
(* metadata are those process_tiled makes for an image; the upscaled tile  *)
(* is whatever the inference callback returned for it.                     *)
(***************************************************************************)
MaxStitchImg == 2
StitchTileSizes == {1, 2}
StitchScales == {1, 2}
Channels == 3

NoStitch == [pc |-> "idle"]

\* The rectangle upscaled_tile.crop_imm(x, y, width, height) cuts: the image
\* crate clamps the origin and the extent to the image (imageops crop_dimms).
CropImm(img_w, img_h, x, y, width, height) ==
    LET cx == Min(x, img_w)
        cy == Min(y, img_h)
    IN  [width |-> Min(width, img_w - cx), height |-> Min(height, img_h - cy)]

\* The sides an upscaled tile may have, around the expected side and around
\* the two edges of the crop.
UpscaledSides(expected, crop_at, crop_len) ==
    {expected - 1, expected, expected + 1, crop_at, crop_at + 1, crop_at + crop_len - 1,
     crop_at + crop_len} \ {0}

\* The metadata the producer gives the tile (x, y) of a width x height image
\* (image_processing.rs 197-207)
TileMetadata(x, y, width, height, tile_size) ==
    [x_index |-> x, y_index |-> y,
     content_width |-> Min(tile_size, width - x * tile_size),
     content_height |-> Min(tile_size, height - y * tile_size)]

\* stitch_tile is entered for one tile of a grid, with an upscaled tile
InitStitch ==
    \E width, height \in 1..MaxStitchImg, tile_size \in StitchTileSizes, scale \in StitchScales :
        LET tiles_x == TilesAcross(width, tile_size)
            tiles_y == TilesAcross(height, tile_size)
            padding == TilePadding(tiles_x * tiles_y, Padding)
            side    == (tile_size + 2 * padding) * scale
        IN  \E x \in 0..(tiles_x - 1), y \in 0..(tiles_y - 1) :
              LET meta == TileMetadata(x, y, width, height, tile_size)
              IN  \E up_w \in UpscaledSides(side, padding * scale, meta.content_width * scale),
                     up_h \in UpscaledSides(side, padding * scale, meta.content_height * scale) :
                    stitch = [pc |-> "crop", out_w |-> width * scale, out_h |-> height * scale,
                              meta |-> meta, scale |-> scale, padding |-> padding,
                              tile_size |-> tile_size, up_w |-> up_w, up_h |-> up_h,
                              crop_w |-> 0, crop_h |-> 0, cropped |-> [width |-> 0, height |-> 0],
                              out_x |-> 0, out_y |-> 0, rows_to_copy |-> 0, cols_to_copy |-> 0,
                              y |-> 0, rows |-> <<>>, ret |-> Nothing]

\* a.saturating_sub(b)
SaturatingSub(a, b) == IF a >= b THEN a - b ELSE 0

\* Lines 337-358: crop_x .. cols_to_copy
StitchCrop ==
    /\ stitch.pc = "crop"
    /\ LET crop_x == stitch.padding * stitch.scale
           crop_y == stitch.padding * stitch.scale
           crop_w == stitch.meta.content_width * stitch.scale
           crop_h == stitch.meta.content_height * stitch.scale
           out_x  == stitch.meta.x_index * stitch.tile_size * stitch.scale
           out_y  == stitch.meta.y_index * stitch.tile_size * stitch.scale
       IN  stitch' = [stitch EXCEPT !.pc = "rows", !.crop_w = crop_w, !.crop_h = crop_h,
                         !.cropped = CropImm(stitch.up_w, stitch.up_h, crop_x, crop_y, crop_w, crop_h),
                         !.out_x = out_x, !.out_y = out_y,
                         !.rows_to_copy = Min(crop_h, SaturatingSub(stitch.out_h, out_y)),
                         !.cols_to_copy = Min(crop_w, SaturatingSub(stitch.out_w, out_x))]
    /\ UNCHANGED <<mem, scan, ort, probe, batch, registry>>
    /\ UNCHANGED <<mirrorVars, cacheVars, jobVars, cmdVars, sessVars>>

\* A row stride taken from the cropped image itself.
SrcRowStart(y, crop_w, cropped_w) == y * cropped_w * Channels

\* (y * crop_w * 3): the row's first byte in cropped.as_raw()   (line 361)
SrcRowStartByCropW(y, crop_w, cropped_w) == y * crop_w * Channels

\* Lines 359-365: one iteration of the row copy.  A slice whose end lies past
\* the end of its buffer panics.
StitchRow ==
    /\ stitch.pc = "rows"
    /\ stitch.y < stitch.rows_to_copy
    /\ LET src_lo  == SrcRowStartByCropW(stitch.y, stitch.crop_w, stitch.cropped.width)
           src_hi  == src_lo + stitch.cols_to_copy * Channels
           dst_idx == (stitch.out_y + stitch.y) * stitch.out_w * Channels + stitch.out_x * Channels
           dst_hi  == dst_idx + stitch.cols_to_copy * Channels
       IN  IF \/ src_hi > stitch.cropped.width * stitch.cropped.height * Channels
              \/ dst_hi > stitch.out_w * stitch.out_h * Channels
           THEN stitch' = [stitch EXCEPT !.pc = "panicked"]
           ELSE stitch' = [stitch EXCEPT !.y = @ + 1,
                              !.rows = Append(@, [src |-> src_lo, dst |-> dst_idx,
                                                  len |-> stitch.cols_to_copy * Channels])]
    /\ UNCHANGED <<mem, scan, ort, probe, batch, registry>>
    /\ UNCHANGED <<mirrorVars, cacheVars, jobVars, cmdVars, sessVars>>

\* Line 367: Ok(())
StitchReturn ==
    /\ stitch.pc = "rows"
    /\ stitch.y >= stitch.rows_to_copy
    /\ stitch' = [stitch EXCEPT !.pc = "returned", !.ret = Ok(0)]
    /\ UNCHANGED <<mem, scan, ort, probe, batch, registry>>
    /\ UNCHANGED <<mirrorVars, cacheVars, jobVars, cmdVars, sessVars>>

NextStitch ==
    \/ StitchCrop
    \/ StitchRow
    \/ StitchReturn

(***************************************************************************)
(* commands.rs: upscale_image commands running concurrently, each with the *)
(* id its caller supplied, and cancel_job.  running_jobs maps an id to the *)
(* cancel flag inserted last under it; a flag is named by the command that *)
(* created it.                                                             *)
(***************************************************************************)
MaxCommands == 2
Invocations == 1..MaxCommands
JobIds == {"a", "b"}
NoFlag == 0

NoRegistry == [pc |-> "idle"]

InitRegistry ==
    registry = [pc |-> "open",
                running_jobs |-> [id \in JobIds |-> NoFlag],
                job |-> [c \in Invocations |-> [pc |-> "idle", id |-> "", flag |-> FALSE]],
                last |-> None]

\* The jobs that are running under the id
RunningAs(id) == { c \in Invocations : registry.job[c].pc = "running" /\ registry.job[c].id = id }

\* running_jobs.insert(job_id.clone(), cancel_flag.clone())   (commands.rs 107)
Insert(map, id, c) == [map EXCEPT ![id] = c]

\* upscale_image up to the spawn: a new flag, registered under the id
\* (commands.rs 99-108)
RegisterJob(c, id) ==
    /\ registry.pc = "open"
    /\ registry.job[c].pc = "idle"
    /\ registry' = [registry EXCEPT !.running_jobs = Insert(@, id, c),
                                    !.job[c] = [pc |-> "running", id |-> id, flag |-> FALSE],
                                    !.last = None]
    /\ UNCHANGED <<mem, scan, ort, probe, batch, stitch>>
    /\ UNCHANGED <<mirrorVars, cacheVars, jobVars, cmdVars, sessVars>>

\* UpscaleEngine::run returns: on Err the command returns by `??` before the
\* cleanup, on Ok it removes its id from running_jobs   (commands.rs 137-150)
CleanupJob(c, ok) ==
    /\ registry.pc = "open"
    /\ registry.job[c].pc = "running"
    /\ registry' = [registry EXCEPT
                       !.running_jobs = IF ok THEN [@ EXCEPT ![registry.job[c].id] = NoFlag] ELSE @,
                       !.job[c].pc = "returned",
                       !.last = None]
    /\ UNCHANGED <<mem, scan, ort, probe, batch, stitch>>
    /\ UNCHANGED <<mirrorVars, cacheVars, jobVars, cmdVars, sessVars>>

\* cancel_job(job_id): the flag found under the id is set; Ok(()) either way
\* (commands.rs 387-394).  last records the call: its id, the jobs then
\* running, the flags and the map before it.
CancelById(id) ==
    /\ registry.pc = "open"
    /\ LET found == registry.running_jobs[id]
       IN  registry' = [registry EXCEPT
                           !.job = IF found # NoFlag THEN [@ EXCEPT ![found].flag = TRUE] ELSE @,
                           !.last = Some([id |-> id, ret |-> Ok(0),
                                          running |-> { c \in Invocations : registry.job[c].pc = "running" },
                                          targets |-> RunningAs(id),
                                          found |-> found,
                                          flags |-> [c \in Invocations |-> registry.job[c].flag],
                                          map |-> registry.running_jobs])]
    /\ UNCHANGED <<mem, scan, ort, probe, batch, stitch>>
    /\ UNCHANGED <<mirrorVars, cacheVars, jobVars, cmdVars, sessVars>>

NextCancel ==
    \/ \E c \in Invocations, id \in JobIds : RegisterJob(c, id)
    \/ \E c \in Invocations, ok \in BOOLEAN : CleanupJob(c, ok)
    \/ \E id \in JobIds : CancelById(id)

UnitIdle ==
    /\ mem = NoMem
    /\ scan = NoScan
    /\ ort = NoOrt
    /\ probe = NoProbe
    /\ batch = NoBatch
    /\ stitch = NoStitch
    /\ registry = NoRegistry

(***************************************************************************)
(* The specifications                                                      *)
(***************************************************************************)
NextMirror == SamplePixel

InitSpecMirror == InitMirror /\ CacheIdle /\ JobIdle /\ CmdIdle /\ SessIdle /\ UnitIdle

SpecMirror == InitSpecMirror /\ [][NextMirror]_vars

InitModelCache == MirrorIdle /\ CacheIdle /\ JobIdle /\ CmdIdle /\ SessIdle /\ UnitIdle

SpecModelCache == InitModelCache /\ [][NextModelCache]_vars

InitSpecScaleCache == MirrorIdle /\ InitScaleCache /\ JobIdle /\ CmdIdle /\ SessIdle /\ UnitIdle

SpecScaleCache == InitSpecScaleCache /\ [][NextScaleCache]_vars

Init == MirrorIdle /\ CacheIdle /\ InitJob /\ CmdIdle /\ SessIdle /\ UnitIdle

Next == NextJob

Spec == Init /\ [][Next]_vars

\* Jobs on a model of fixed input size 65, whose tiles are one pixel wide (an
\* image of W x H pixels is a grid of W x H tiles), or 66, whose tiles are two
\* pixels wide (grids of one tile, and grids whose last column is narrower).
TiledConfigs ==
    { c \in [W : 1..MaxW, H : 1..MaxH, model_scale : Scales, target_scale : Scales,
             batch_size : {None, Some(2), Some(9)}, fixed_batch : {None},
             fixed_input_size : {Some(65), Some(66)}, recommended_tile_size : {DefaultTile}] :
        \/ c.model_scale = 2 /\ c.target_scale = 2
        \/ c.W = 1 /\ c.H = 1 /\ c.batch_size = None
              /\ <<c.model_scale, c.target_scale>> \in {<<4, 2>>, <<2, 4>>} }

InitTiledJob ==
    /\ cfg \in TiledConfigs
    /\ job = NewJob
    /\ cancel_flag = FALSE
    /\ pass = NoPass
    /\ prod = NoThread
    /\ chan = NoChan
    /\ cons = NoThread
    /\ output_image = <<>>
    /\ obs = NoObs

InitTiled == MirrorIdle /\ CacheIdle /\ InitTiledJob /\ CmdIdle /\ SessIdle /\ UnitIdle

\* The job whose inference callback may also return a Vec of the wrong length.
NextTiled ==
    \/ \E ok \in BOOLEAN : LoadImage(ok)
    \/ Configure
    \/ \E ok \in BOOLEAN : TiledBegin(ok)
    \/ ProducerTile
    \/ ProducerSend
    \/ ProducerFinal
    \/ ConsumerRecv
    \/ ConsumerCheck
    \/ ConsumerCall
    \/ \E ok \in BOOLEAN, counted \in BOOLEAN, elapsed \in BOOLEAN :
            ConsumerInferred(ok, counted, elapsed)
    \/ TiledEnd
    \/ Resize
    \/ Finish
    \/ \E ok \in BOOLEAN : SaveResult(ok)
    \/ Cancel

SpecTiled == InitTiled /\ [][NextTiled]_vars

\* The scheduler runs each thread that can take a step, every call of the
\* inference callback returns, and thread::scope returns once both are done.
FairPipeline ==
    /\ WF_vars(ProducerTile)
    /\ WF_vars(ProducerSend)
    /\ WF_vars(ProducerFinal)
    /\ WF_vars(ConsumerRecv)
    /\ WF_vars(ConsumerCheck)
    /\ WF_vars(ConsumerCall)
    /\ WF_vars(\E ok, counted, elapsed \in BOOLEAN : ConsumerInferred(ok, counted, elapsed))
    /\ WF_vars(TiledEnd)

InitPipeline == MirrorIdle /\ CacheIdle /\ InitTiledJob /\ CmdIdle /\ SessIdle /\ UnitIdle

SpecPipeline == InitPipeline /\ [][NextTiled]_vars /\ FairPipeline

InitCommands == MirrorIdle /\ CacheIdle /\ JobIdle /\ CmdIdle /\ SessIdle /\ UnitIdle

SpecCommands == InitCommands /\ [][NextCommands]_vars

InitSession == MirrorIdle /\ CacheIdle /\ JobIdle /\ CmdIdle /\ SessIdle /\ UnitIdle

SpecSession == InitSession /\ [][NextSession]_vars /\ FairSession

InitSpecPreflight ==
    /\ MirrorIdle /\ CacheIdle /\ JobIdle /\ CmdIdle /\ SessIdle
    /\ InitPreflight /\ scan = NoScan /\ ort = NoOrt /\ probe = NoProbe /\ batch = NoBatch
    /\ stitch = NoStitch /\ registry = NoRegistry

SpecPreflight == InitSpecPreflight /\ [][NextPreflight]_vars

InitSpecScaleFallback ==
    /\ MirrorIdle /\ CacheIdle /\ JobIdle /\ CmdIdle /\ SessIdle
    /\ mem = NoMem /\ InitScan /\ ort = NoOrt /\ probe = NoProbe /\ batch = NoBatch
    /\ stitch = NoStitch /\ registry = NoRegistry

SpecScaleFallback == InitSpecScaleFallback /\ [][NextScan]_vars

InitSpecProviders ==
    /\ MirrorIdle /\ CacheIdle /\ JobIdle /\ CmdIdle /\ SessIdle
    /\ mem = NoMem /\ scan = NoScan /\ InitOrt /\ probe = NoProbe /\ batch = NoBatch
    /\ stitch = NoStitch /\ registry = NoRegistry

SpecProviders == InitSpecProviders /\ [][NextOrt]_vars

InitSpecDetectScale ==
    /\ MirrorIdle /\ CacheIdle /\ JobIdle /\ CmdIdle /\ SessIdle
    /\ mem = NoMem /\ scan = NoScan /\ ort = NoOrt /\ InitProbe /\ batch = NoBatch
    /\ stitch = NoStitch /\ registry = NoRegistry

SpecDetectScale == InitSpecDetectScale /\ [][NextProbe]_vars

InitSpecBuffer ==
    /\ MirrorIdle /\ CacheIdle /\ JobIdle /\ CmdIdle /\ SessIdle
    /\ mem = NoMem /\ scan = NoScan /\ ort = NoOrt /\ probe = NoProbe /\ InitBatch
    /\ stitch = NoStitch /\ registry = NoRegistry

SpecBuffer == InitSpecBuffer /\ [][NextBatch]_vars

InitSpecStitch ==
    /\ MirrorIdle /\ CacheIdle /\ JobIdle /\ CmdIdle /\ SessIdle
    /\ mem = NoMem /\ scan = NoScan /\ ort = NoOrt /\ probe = NoProbe /\ batch = NoBatch
    /\ InitStitch /\ registry = NoRegistry

SpecStitch == InitSpecStitch /\ [][NextStitch]_vars

InitSpecCancel ==
    /\ MirrorIdle /\ CacheIdle /\ JobIdle /\ CmdIdle /\ SessIdle
    /\ mem = NoMem /\ scan = NoScan /\ ort = NoOrt /\ probe = NoProbe /\ batch = NoBatch
    /\ stitch = NoStitch /\ InitRegistry

SpecCancel == InitSpecCancel /\ [][NextCancel]_vars

(***************************************************************************)
(* Properties                                                              *)
(***************************************************************************)

\* C1 (Spec).  Dimension law: a process_with_session that returns Ok returns
\* an image of exactly W*t x H*t pixels, whatever the model scale m and the
\* target scale t in {2,3,4} (m = t, m > t, m < t).  Jobs whose cancel flag
\* was set are left aside.
C1_DimensionLaw ==
    (job.returned = Ok(0) /\ ~cancel_flag) =>
        job.final = <<cfg.W * cfg.target_scale, cfg.H * cfg.target_scale>>

\* C2 (Spec).  Cancellation outcome: when the cancel flag is set while a tiled
\* pass runs and the consumer has not yet taken every tile, that pass returns
\* the cancellation error (or the error of an inference callback that failed
\* meanwhile); it never returns Ok.
C2_CancelledPassReturnsErr ==
    (obs.cancel_in_pass > 0 /\ obs.cancel_in_pass = pass.no /\ pass.result # Nothing) =>
        /\ pass.result[1] = "err"
        /\ pass.result[2] \in {"cancelled", "inference"}

\* C3 (Spec).  Cancellation bound: the producer enqueues no batch after it has
\* read the flag as set, and the consumer enters the inference callback at
\* most once after the flag is set.
C3_CancellationBound ==
    /\ obs.sends_after_seen = 0
    /\ obs.calls_after_cancel <= 1

\* A pass in which the flag was set between the consumer's check and its
\* call, so that one more callback began, and in which the producer read the
\* flag as set before the pass returned.
C3_Witness ==
    /\ obs.calls_after_cancel = 1
    /\ obs.producer_saw_cancel
    /\ obs.cancel_in_pass > 0
    /\ pass.result = Err("cancelled")

\* C4 (Spec).  No output on cancel: when the cancel flag is set while run is in
\* a tiled pass, save_result is never invoked.
C4_NoSaveAfterCancel ==
    obs.cancel_in_pass > 0 => obs.saved = 0

\* The output pixels a stitched rectangle covers.
Covers(r, px, py) ==
    /\ r.x <= px /\ px < r.x + r.w
    /\ r.y <= py /\ py < r.y + r.h

\* A tiled pass has run to completion: it returned Ok with every tile stitched.
PassCompleted ==
    /\ pass.result = Ok(0)
    /\ pass.processed_tiles = pass.total_tiles

\* C5 (Spec).  Stitch coverage: when a tiled pass has run to completion, every
\* pixel of the (W*scale) x (H*scale) output was written by exactly one
\* stitch_tile call, and no tile was written outside the output.
C5_StitchCoverage ==
    PassCompleted =>
        /\ Len(output_image) = pass.total_tiles
        /\ \A px \in 0..(pass.out_width - 1), py \in 0..(pass.out_height - 1) :
              Cardinality({ i \in 1..Len(output_image) : Covers(output_image[i], px, py) }) = 1
        /\ \A i \in 1..Len(output_image) :
              /\ output_image[i].x + output_image[i].w <= pass.out_width
              /\ output_image[i].y + output_image[i].h <= pass.out_height

\* A completed pass over a grid of several tiles whose last column is
\* narrower than the tile size.
C5_Witness ==
    /\ PassCompleted
    /\ pass.tiles_x > 1
    /\ pass.width % pass.tile_size # 0
    /\ pass.scale = 3

\* C6 (Spec).  Tile uniformity: all tiles handed to the inference callback
\* during one process_with_session call, both passes of a double upscale
\* included, have the same width and height.
C6_TileUniformity ==
    Cardinality(obs.tile_dims) <= 1

\* C7 (SpecMirror).  Mirror correctness: the column extract_tile_with_mirroring
\* samples for a coordinate is the ping-pong reflection of that coordinate
\* into 0..max-1.
C7_MirrorIsPingPong ==
    src_x # NoPixel => src_x = PingPong(src_x_ideal, ex.img_w)

\* C8 (SpecModelCache).  Cache idempotence: a get_or_load_model that runs
\* right after a successful get_or_load_model of the same path, no other cache
\* operation in between and the low-memory preflight tripped in neither,
\* returns the same session handle and opens no session.
C8_CacheIdempotence ==
    (lastOp.op = "get_or_load_model" /\ ~lastOp.low /\ lastOp.prev # Nothing) =>
        /\ lastOp.ret = lastOp.prev
        /\ ~lastOp.loaded

\* The second of two such calls has returned, the first having loaded the
\* session it returned.
C8_Witness ==
    /\ lastOp.op = "get_or_load_model" /\ ~lastOp.low /\ lastOp.prev # Nothing
    /\ lastOp.ret = lastOp.prev
    /\ model_cache # None /\ model_cache[1].session = lastOp.ret[2]
    /\ Len(sessions) >= 2

\* C9 (SpecScaleCache).  Negative cache: a get_model_scale that finds the path's
\* last probe (none invalidated since) failed returns the negative-cache
\* error without probing; one that finds it succeeded with scale s returns
\* Ok(s) without probing.
C9_NegativeCache ==
    lastOp.op = "get_model_scale" =>
        /\ (lastOp.prior # Nothing /\ lastOp.prior[1] = "err") =>
              (lastOp.ret = Err("negative_cache") /\ ~lastOp.probed)
        /\ (lastOp.prior # Nothing /\ lastOp.prior[1] = "ok") =>
              (lastOp.ret = lastOp.prior /\ ~lastOp.probed)

\* The model's batch dimension is fixed to 1 and more than one tile per batch
\* was requested.
FixedToOneButMoreRequested ==
    /\ cfg.fixed_batch = Some(1)
    /\ cfg.batch_size # None /\ cfg.batch_size[1] > 1

\* process_with_session has gone past its configuration step.
Configured ==
    /\ job.pc \notin {"load_image", "configure"}
    /\ ~(job.returned # Nothing /\ job.returned[1] = "err" /\ job.returned[2] = "image")

\* C10 (Spec).  Batch override warning: for a model whose batch is fixed to 1
\* and a requested batch above 1, process_with_session invokes the warning
\* sink exactly once and every batch handed to the inference callback holds
\* one tile; otherwise it never invokes the warning sink.
C10_BatchOverrideWarning ==
    IF FixedToOneButMoreRequested
    THEN /\ obs.warnings = (IF Configured THEN 1 ELSE 0)
         /\ obs.batch_lens \subseteq {1}
    ELSE obs.warnings = 0

\* An overridden job that has run several batches of one tile.
C10_Witness ==
    /\ FixedToOneButMoreRequested
    /\ obs.warnings = 1
    /\ obs.batch_lens = {1}
    /\ pass.processed_tiles >= 2

\* Progress values are fractions <<processed, total>>: a <= b.
FracLeq(a, b) == a[1] * b[2] <= b[1] * a[2]

\* A step never lowers the value last delivered to the progress sink.
ProgressNeverDrops ==
    obs.progress # <<>> => (obs'.progress # <<>> /\ FracLeq(obs.progress, obs'.progress))

\* When process_with_session has returned Ok, the value last delivered is 1.0.
EndsAtOne ==
    job.returned = Ok(0) => (obs.progress # <<>> /\ obs.progress[1] = obs.progress[2])

\* C11 (Spec).  Progress monotonicity: within one process_with_session call
\* the values delivered to the progress sink never decrease, and when the call
\* returns Ok the last value delivered is exactly 1.0.
C11_ProgressMonotone ==
    [][ProgressNeverDrops]_vars /\ []EndsAtOne

\* C12 (SpecModelCache).  Invalidation: once invalidate_cache(path) has
\* returned, neither the scale cache nor the session slot holds an entry for
\* path.
C12_InvalidationClearsBoth ==
    lastOp.op = "invalidate_cache" =>
        /\ scale_cache[lastOp.path] = NoEntry
        /\ ~CacheHit(model_cache, lastOp.path)

\* A step of a get_or_load_model call that found less than 2 GiB available
\* leaves the session slot as it is, and when it returns a handle, the handle
\* is of the session the call itself has just opened.
LowMemoryStep ==
    \A t \in Callers :
        (call[t].op = "get_or_load_model" /\ call[t].low /\ call'[t] # call[t]) =>
            /\ model_cache' = model_cache
            /\ (~Busy(t)' /\ lastOp'.ret[1] = "ok") =>
                  /\ lastOp'.loaded
                  /\ lastOp'.ret[2] = Len(sessions')
                  /\ Len(sessions') = Len(sessions) + 1

\* C13 (SpecModelCache).  Low-memory preflight: with less than 2 GiB available
\* get_or_load_model returns a freshly loaded session and leaves the session
\* slot exactly as it was.
C13_LowMemoryBypass ==
    [][LowMemoryStep]_vars

\* A low-memory call has returned a new session for the path the slot holds,
\* and the slot still holds the session it held.
C13_Witness ==
    /\ lastOp.op = "get_or_load_model" /\ lastOp.low /\ lastOp.ret[1] = "ok"
    /\ CacheHit(model_cache, lastOp.path)
    /\ model_cache[1].session # lastOp.ret[2]

\* C14 (SpecModelCache).  Single-slot replacement: the slot holds at most one
\* (path, session) pair; a successful caching get_or_load_model that loaded a
\* session leaves the slot holding its path with that session; and no session
\* is freed while the slot or a job still refers to it.
C14_SingleSlotReplacement ==
    /\ Len(model_cache) <= 1
    /\ (lastOp.op = "get_or_load_model" /\ ~lastOp.low /\ lastOp.loaded
            /\ lastOp.ret[1] = "ok") =>
          model_cache = Some([path |-> lastOp.path, session |-> lastOp.ret[2]])
    /\ \A t \in Callers : holds[t] # 0 => holds[t] \notin freed
    /\ model_cache # None => model_cache[1].session \notin freed

\* Some job still holds a session that the slot held and a load of another
\* path has replaced, while another replaced session has been freed.
C14_Witness ==
    /\ lastOp.op = "get_or_load_model" /\ ~lastOp.low /\ lastOp.loaded
    /\ lastOp.ret[1] = "ok"
    /\ \E t \in Callers :
          /\ holds[t] \in replaced
          /\ sessions[holds[t]] # lastOp.path
    /\ freed # {}

\* C15 (Spec).  Scale reconciliation passes: a process_with_session that
\* returns Ok has run exactly one tiled pass at scale m when m = t; exactly one
\* tiled pass at scale m and then one resize of its w x h output to
\* (w*t/m, h*t/m) when m > t; exactly two tiled passes at scale m when m < t,
\* the second begun after the first returned Ok and taking the first pass's
\* output as its input.  No job ever runs more passes or resizes than that.
PassesAtModelScale ==
    \A i \in 1..Len(obs.passes) :
        /\ obs.passes[i].scale = cfg.model_scale
        /\ obs.passes[i].output = <<obs.passes[i].input[1] * cfg.model_scale,
                                    obs.passes[i].input[2] * cfg.model_scale>>
SecondPassFollowsFirst ==
    Len(obs.passes) >= 2 =>
        /\ Len(obs.passes) = 2
        /\ cfg.model_scale < cfg.target_scale
        /\ obs.passes[2].prior = Ok(0)
        /\ obs.passes[2].input = obs.passes[1].output
ResizeFollowsOnePass ==
    obs.resizes # <<>> =>
        /\ Len(obs.resizes) = 1
        /\ cfg.model_scale > cfg.target_scale
        /\ obs.resizes[1].after = 1
        /\ Len(obs.passes) = 1
        /\ obs.resizes[1].to[1] * cfg.model_scale = obs.passes[1].output[1] * cfg.target_scale
        /\ obs.resizes[1].to[2] * cfg.model_scale = obs.passes[1].output[2] * cfg.target_scale
C15_ScaleReconciliation ==
    /\ PassesAtModelScale
    /\ SecondPassFollowsFirst
    /\ ResizeFollowsOnePass
    /\ job.returned = Ok(0) =>
          /\ Len(obs.passes) >= 1
          /\ obs.passes[1].input = <<cfg.W, cfg.H>>
          /\ cfg.model_scale = cfg.target_scale =>
                (Len(obs.passes) = 1 /\ obs.resizes = <<>>)
          /\ cfg.model_scale > cfg.target_scale =>
                (Len(obs.passes) = 1 /\ Len(obs.resizes) = 1)
          /\ cfg.model_scale < cfg.target_scale =>
                (Len(obs.passes) = 2 /\ obs.resizes = <<>>)

\* A job of each kind has returned Ok without a cancel: here the downscaling
\* one (m = 3, t = 2) on an image of three pixels by two, resized to 6 x 4.
C15_Witness ==
    /\ job.returned = Ok(0) /\ ~cancel_flag
    /\ cfg.model_scale = 3 /\ cfg.target_scale = 2
    /\ cfg.W = MaxW /\ cfg.H = 2
    /\ Len(obs.resizes) = 1
    /\ obs.resizes[1].to = <<2 * MaxW, 4>>

\* upscale_multiple has returned Ok(BatchReport { successful, failed }).
ReportReturned ==
    cmd.kind = "upscale_multiple" /\ cmd.pc = "returned" /\ cmd.returned = Ok(0)

\* How many times image i is listed in the report.
TimesReported(i) ==
    Cardinality({ k \in 1..Len(successful) : successful[k] = i })
    + Cardinality({ k \in 1..Len(failed) : failed[k].path = i })

\* C16 (SpecCommands).  Batch failure isolation: an image whose inference or
\* save failed is listed in `failed` with its path and the loop goes on with
\* the remaining images: when upscale_multiple returns its report and the job
\* was not cancelled, every input path is in exactly one of `successful` and
\* `failed`, so |successful| + |failed| = |paths|.
C16_BatchFailureIsolation ==
    /\ \A i \in 1..MaxPaths :
          (<<"file-error", i>> \in events.emitted /\ cmd.pc \in {"finalize", "returned"}
              /\ cmd.awaited = Len(save_handles)) =>
              \E k \in 1..Len(failed) : failed[k].path = i
    /\ (ReportReturned /\ ~cancel_flag) =>
          /\ Len(successful) + Len(failed) = cmd.n
          /\ \A i \in 1..cmd.n : TimesReported(i) = 1

\* A batch that was not cancelled has returned its report: the inference of
\* the first image failed, and the second image was processed and saved.
C16_Witness ==
    /\ ReportReturned /\ ~cancel_flag
    /\ cmd.n >= 2
    /\ failed = <<[path |-> 1, reason |-> "inference"]>>
    /\ successful[1] = 2

\* C17 (SpecCommands).  Batch pipelining order: at most one inference of the
\* job is in progress at any time, and while image N+1 is inferred the
\* inference of every image up to N has returned; a save task exists only for
\* an image whose inference returned Ok; the report is returned only after
\* every save task that was spawned has completed.
C17_BatchPipelining ==
    /\ Cardinality(events.inferring) <= 1
    /\ cmd.pc = "infer" => events.inferring = {cmd.index + 1}
    /\ \A i \in 1..MaxPaths :
          saves[i] # "none" => (i \in events.inferred_ok /\ i <= cmd.index)
    /\ ReportReturned =>
          \A k \in 1..Len(save_handles) : saves[save_handles[k]] \in {"ok", "err"}

\* The save of the first image is still running in the background while the
\* tiled pass of the second image is in progress.
C17_Witness ==
    /\ cmd.pc = "infer" /\ cmd.index = 1
    /\ job.pc = "pass"
    /\ saves[1] = "running"

\* C18 (SpecCommands).  Batch cancellation: no image passes the poll at the
\* head of the loop once the cancel flag is set; no image is listed in
\* `failed` because of the cancellation; no output file is written for an
\* image whose inference was interrupted; and the call returns its report.
NoImagePolledAfterCancel == events.polled_set = {}
CancelNotReportedAsFailure ==
    \A k \in 1..Len(failed) : failed[k].reason # "cancelled"
NoOutputForInterrupted == \A i \in events.interrupted : saves[i] = "none"
PartialReportReturned ==
    (cmd.kind = "upscale_multiple" /\ cmd.pc = "returned" /\ cancel_flag
        /\ cmd.returned # Err("model")) =>
        /\ cmd.returned = Ok(0)
        /\ \A k \in 1..Len(successful) : successful[k] \in events.inferred_ok
C18_BatchCancellation ==
    /\ NoImagePolledAfterCancel
    /\ CancelNotReportedAsFailure
    /\ NoOutputForInterrupted
    /\ PartialReportReturned

\* C19 (SpecCommands).  Job lifecycle: the job's entry is in running_jobs
\* from the entry of upscale_image / upscale_multiple on, and it is gone once
\* the command has returned, whatever the return path.
RegisteredWhileRunning == cmd.pc \notin {"idle", "returned"} => JobId \in running_jobs
RemovedOnReturn == cmd.pc = "returned" => running_jobs = {}
C19_JobLifecycle ==
    /\ RegisteredWhileRunning
    /\ RemovedOnReturn

\* C20 (SpecSession).  Session serialization: at most one thread is inside a
\* forward pass (run_inference, run_with_binding or a detect_scale probe) of a
\* given session at any time, and that thread holds the session's mutex; no
\* call fails at the lock; a call that waits for the lock of a session
\* eventually runs its forward pass on it.
AtMostOneForwardPass ==
    \A s \in SessionIds :
        /\ Cardinality(fwd[s]) <= 1
        /\ \A t \in fwd[s] : session_lock[s].holder = t
NoCallFailsAtLock == \A t \in Threads : thr[t].ret # Err("lock")
C20_SessionSerialization ==
    /\ []AtMostOneForwardPass
    /\ []NoCallFailsAtLock
    /\ \A t \in Threads : (thr[t].pc = "lock") ~> (thr[t].pc = "running")

\* A call found the session's mutex held by the other thread, waited, and is
\* now inside its own forward pass on that session; the other thread's call
\* has returned Ok.
C20_Witness ==
    \E t \in Threads, u \in Threads :
        /\ t # u
        /\ thr[t].waited /\ thr[t].pc = "running"
        /\ fwd[thr[t].s] = {t}
        /\ thr[u].s = thr[t].s /\ thr[u].pc = "idle" /\ thr[u].ret = Ok(0)

\* ceil(n / b) for positive b.
CeilDiv(n, b) == (n + b - 1) \div b

\* The tiles of the batches the consumer has received, in the order received.
RECURSIVE Flatten(_)
Flatten(bs) == IF bs = <<>> THEN <<>> ELSE Head(bs) \o Flatten(Tail(bs))

\* C21 (SpecTiled).  Batch grouping: the consumer receives the tiles in raster
\* order (y outer, x inner), in batches none of which is empty and all of
\* which but the last received hold exactly batch_size tiles; an uncancelled
\* pass of N tiles that returns Ok has received exactly ceil(N / batch_size)
\* batches, the last holding the N - batch_size * (ceil(N / batch_size) - 1)
\* tiles that remain.
C21_BatchGrouping ==
    job.pc = "pass" =>
        /\ \A k \in 1..Len(obs.batches) :
              /\ Len(obs.batches[k]) >= 1
              /\ Len(obs.batches[k]) <= pass.batch_size
              /\ k < Len(obs.batches) => Len(obs.batches[k]) = pass.batch_size
        /\ \A j \in 1..Len(Flatten(obs.batches)) :
              Flatten(obs.batches)[j] = <<(j - 1) % pass.tiles_x, (j - 1) \div pass.tiles_x>>
        /\ (pass.result = Ok(0) /\ ~cancel_flag) =>
              /\ Len(obs.batches) = CeilDiv(pass.total_tiles, pass.batch_size)
              /\ Len(Flatten(obs.batches)) = pass.total_tiles
              /\ Len(obs.batches[Len(obs.batches)]) =
                    pass.total_tiles - pass.batch_size * (Len(obs.batches) - 1)

\* An uncancelled pass over a grid of three tiles by one with batch size 2
\* has returned Ok: a full batch, then the residual batch of one tile.
C21_Witness ==
    /\ job.pc = "pass" /\ pass.result = Ok(0) /\ ~cancel_flag
    /\ pass.batch_size = 2 /\ pass.tiles_x = 3 /\ pass.tiles_y = 1
    /\ obs.batches = << << <<0, 0>>, <<1, 0>> >>, << <<2, 0>> >> >>

\* The tiles in the batches that wait in the channel.
TilesQueued == Len(Flatten(chan.buf))

\* C22 (SpecTiled).  Back-pressure: while a tiled pass runs, the channel holds
\* at most 4 batches; a producer whose send finds 4 batches there cannot
\* complete it; the tiles extracted and not yet taken by the consumer are
\* those in the channel, at most 4 * batch_size, plus the batch the producer
\* is assembling, at most batch_size.
C22_BackPressure ==
    InTiledPass =>
        /\ Len(chan.buf) <= QueueCap
        /\ TilesQueued <= QueueCap * pass.batch_size
        /\ Len(prod.batch) <= pass.batch_size
        /\ prod.idx - Received = TilesQueued + Len(prod.batch)
        /\ prod.idx - Received <= QueueCap * pass.batch_size + Len(prod.batch)
        /\ (prod.pc = "send" /\ Len(chan.buf) = QueueCap) => ~ENABLED ProducerSend

\* The channel holds 4 batches and the producer waits in send with a fifth
\* batch in hand while the consumer is inside the inference callback.
C22_Witness ==
    /\ InTiledPass
    /\ Len(chan.buf) = QueueCap
    /\ prod.pc = "send" /\ Len(prod.batch) = pass.batch_size
    /\ cons.pc = "infer"

\* The tiles of the first n batches the consumer received.
TilesBefore(n) == Len(Flatten(SubSeq(obs.batches, 1, n)))

\* C23 (SpecTiled).  Count consistency: once the inference callback has
\* returned a Vec of another length than the batch it was given, the pass has
\* returned the error "Batch size mismatch" and the job fails with it; the
\* canvas holds the tiles of the earlier batches only, and the progress
\* reported counts no tile of that batch.
C23_CountConsistency ==
    obs.miscount # <<>> =>
        /\ pass.no = obs.miscount[1]
        /\ pass.result = Err("mismatch")
        /\ job.returned \in {Nothing, Err("mismatch")}
        /\ job.pc = "done" => job.returned = Err("mismatch")
        /\ Len(output_image) = TilesBefore(obs.miscount[2] - 1)
        /\ pass.processed_tiles = TilesBefore(obs.miscount[2] - 1)
        /\ obs.progress # <<>> => obs.progress[1] <= TilesBefore(obs.miscount[2] - 1)

\* The callback returned the wrong number of tiles for the second batch of a
\* pass of batch size 2: the job has failed with the two tiles of the first
\* batch stitched.
C23_Witness ==
    /\ obs.miscount = <<1, 2>>
    /\ pass.batch_size = 2
    /\ job.pc = "done" /\ job.returned = Err("mismatch")
    /\ Len(output_image) = 2

\* The job has returned the error of an inference callback.
CallbackError == obs.error # <<>>

\* C24 (SpecTiled).  Abort without retry: once the inference callback has
\* returned an error for a batch, the pass returns that error and the job
\* fails with it; the callback is not invoked again, neither for that batch
\* nor for a later one, the consumer takes no further batch, and no second
\* pass is started.
C24_AbortWithoutRetry ==
    CallbackError =>
        /\ pass.no = obs.error[1]
        /\ obs.calls = obs.error[2]
        /\ Len(obs.batches) = obs.error[2]
        /\ Len(obs.passes) = obs.error[1]
        /\ pass.result \in {Err("inference"), Err("mismatch")}
        /\ cons.pc \in {"join", "idle"}
        /\ job.returned \in {Nothing, pass.result}
        /\ job.pc = "done" => job.returned = pass.result

\* The callback failed on the first batch of the first pass of a double
\* upscale: the job has failed after that one call, with no second pass.
C24_Witness ==
    /\ CallbackError
    /\ obs.error = <<1, 1>>
    /\ job.pc = "done" /\ job.returned = Err("inference")
    /\ cfg.model_scale < cfg.target_scale

\* C25: process_tiled fails with an insufficient-memory error, before the canvas
\* is allocated, whenever the available memory in bytes does not exceed
\* W*scale * H*scale * 3 + 100 MiB: past the check, the pass has failed exactly
\* when the available memory does not exceed that sum, and a canvas exists only
\* when it exceeds it.
C25_MemoryPreflight ==
    mem.pc \in {"alloc", "tiles", "done"} =>
        LET required == mem.width * mem.scale * mem.height * mem.scale * 3 + Headroom
        IN  /\ (mem.available <= required) => mem.ret = Err("insufficient_memory")
            /\ mem.canvas # None => mem.available > required

\* C26 (Spec).  Tiling plan invariant: whenever the model has a fixed spatial
\* input S, process_with_session either fails (when S <= 2*padding) or builds
\* a plan with padding = 32 and tile_size = S - 2*padding that satisfies
\* tile_size > 2*padding.
C26_TilingPlanInvariant ==
    (Configured /\ cfg.fixed_input_size # None) =>
        LET S == cfg.fixed_input_size[1]
        IN  IF S <= 2 * Padding
            THEN job.returned = Err("input_too_small")
            ELSE /\ job.returned # Err("input_too_small")
                 /\ job.tile_size = S - 2 * Padding
                 /\ job.tile_size > 2 * Padding

\* C27 (SpecScaleFallback).  Filename scale fallback: whenever the model scale
\* is not obtained by probing (the probe failed, the negative cache was hit, or
\* the entry point never probes), load_model, preload_model and scan_file yield
\* 2 if the filename contains x2, else 3 if it contains x3, else 4.
C27_FilenameScaleFallback ==
    (scan.pc = "done" /\ (scan.lookup = Nothing \/ scan.lookup[1] = "err")) =>
        scan.scale = IF Contains(scan.filename, <<"x", "2">>) THEN 2
                     ELSE IF Contains(scan.filename, <<"x", "3">>) THEN 3
                     ELSE 4

\* The platform's ranked list of execution providers, CPU last.
RankedList(platform, prefer_npu) ==
    CASE platform = "windows" ->
            (IF prefer_npu THEN <<"OpenVINO (NPU/Auto)">> ELSE <<>>)
                \o <<"DirectML (GPU)", "CPU">>
      [] platform = "linux" ->
            <<"ROCm (AMD)", "CUDA (NVIDIA)", "OpenVINO (Intel)", "CPU">>
      [] platform = "macos" ->
            (IF prefer_npu THEN <<"CoreML (Neural Engine)">> ELSE <<>>)
                \o <<"CoreML (NPU/GPU)", "CPU">>

\* The providers tried so far are the first ones of the ranked list, in order,
\* and none was tried after one that committed.
TriedInOrder ==
    LET ranked == RankedList(ort.platform, ort.prefer_npu)
    IN  /\ Len(ort.attempts) <= Len(ranked)
        /\ \A k \in 1..Len(ort.attempts) :
              /\ ort.attempts[k].name = ranked[k]
              /\ k < Len(ort.attempts) => ort.attempts[k].outcome # "committed"

\* Every provider of the ranked list, CPU included, was tried and none committed.
EveryProviderFailed ==
    /\ Len(ort.attempts) = Len(RankedList(ort.platform, ort.prefer_npu))
    /\ \A k \in 1..Len(ort.attempts) : ort.attempts[k].outcome # "committed"

\* The provider that committed, when there is one, is the last one tried and
\* the one recorded.
FirstCommitRecorded ==
    /\ ort.session # None =>
          /\ ort.attempts # <<>>
          /\ ort.attempts[Len(ort.attempts)] =
                [name |-> ort.session[1], outcome |-> "committed"]
    /\ (ort.pc = "done" /\ ort.ret[1] = "ok") =>
          /\ ort.session # None
          /\ ort.ret[2].execution_provider = ort.session[1]

\* C28 (SpecProviders), as stated.  Provider fallback chain: OrtSession::new
\* returns an error only if every provider of the ranked list, CPU included,
\* failed.
C28_ErrorOnlyIfAllFailed ==
    (ort.pc = "done" /\ ort.ret[1] = "err") => EveryProviderFailed

\* C28 (SpecProviders).  Provider fallback chain: once the session builder is
\* set up, OrtSession::new tries the execution providers of the platform's
\* ranked list in order (NPU-first entries only when prefer_npu), stops at the
\* first that commits and records its name as execution_provider, tries CPU
\* last, and returns a load error only if every provider including CPU failed;
\* no provider after the first successful one is tried.  Its other errors are
\* the builder's, returned before any provider is tried, and "Model input is
\* not a tensor", returned after a provider has committed.
C28_ProviderFallbackChain ==
    ort.pc # "idle" =>
        /\ TriedInOrder
        /\ FirstCommitRecorded
        /\ ort.pc \in {"inspect", "done"} /\ ort.ret # Err("builder") =>
              \/ ort.session # None
              \/ EveryProviderFailed /\ ort.ret = Err("commit")
        /\ ort.ret = Err("commit") => EveryProviderFailed
        /\ ort.ret = Err("builder") => ort.attempts = <<>>
        /\ ort.ret = Err("not_a_tensor") => ort.session # None

\* On Linux the first two providers failed, the third committed and its name
\* was recorded.
C28_Witness ==
    /\ ort.pc = "done"
    /\ ort.platform = "linux"
    /\ Len(ort.attempts) = 3
    /\ ort.attempts[1].outcome = "failed"
    /\ ort.attempts[2].outcome = "unavailable"
    /\ ort.ret = Ok([execution_provider |-> "OpenVINO (Intel)"])

\* The runs made so far are on zeroed [1,3,s,s] inputs for s = 64, 256, 512 in
\* that order, at most three, and every run but the last failed.
RunsInOrder ==
    /\ Len(probe.runs) <= 3
    /\ \A k \in 1..Len(probe.runs) :
          LET s == <<64, 256, 512>>[k]
          IN  /\ probe.runs[k].input.shape = <<1, 3, s, s>>
              /\ probe.runs[k].input.len = 3 * s * s
              /\ probe.runs[k].input.value = 0
              /\ k < Len(probe.runs) => probe.runs[k].outcome[1] = "err"

\* detect_scale has returned after at least one run.
ProbeReturned == probe.pc = "done" /\ probe.runs # <<>>

LastRun == probe.runs[Len(probe.runs)]

\* C29 (SpecDetectScale), as stated.  Scale probing: detect_scale stops at the
\* first size whose run succeeds and returns output_width / s for that size.
C29_FirstSuccessReturnsScale ==
    (ProbeReturned /\ LastRun.outcome[1] = "ok") => probe.ret[1] = "ok"

\* C29 (SpecDetectScale).  Scale probing: once it holds the session lock,
\* detect_scale runs the model on a zeroed [1,3,s,s] input for s = 64, then
\* 256, then 512 and stops at the first size whose run succeeds; it returns
\* output_width / s (integer division) for that size when the output has at
\* least four dimensions and an invalid-output-shape error otherwise; a later
\* size is tried only if every earlier one failed, at most three runs are
\* made, and if all three fail the error of the last attempt is returned.
C29_ScaleProbing ==
    probe.pc # "idle" =>
        /\ RunsInOrder
        /\ probe.pc = "done" =>
              \/ probe.runs = <<>> /\ probe.ret = Err(<<"lock", 0>>)
              \/ /\ probe.runs # <<>>
                 /\ LastRun.outcome[1] = "ok"
                 /\ LET shape == LastRun.outcome[2]
                        s     == LastRun.input.shape[4]
                    IN  IF Len(shape) >= 4
                        THEN probe.ret = Ok(shape[4] \div s)
                        ELSE probe.ret[1] = "err"
              \/ /\ Len(probe.runs) = 3
                 /\ LastRun.outcome[1] = "err"
                 /\ probe.ret = LastRun.outcome
        /\ probe.pc # "done" => probe.ret = Nothing

\* The runs at 64 and 256 failed, the run at 512 gave an output 1024 wide and
\* detect_scale returned 2.
C29_Witness ==
    /\ probe.pc = "done"
    /\ Len(probe.runs) = 3
    /\ LastRun.outcome = Ok(<<1, 3, 512, 1024>>)
    /\ probe.ret = Ok(2)

\* The batch is not empty and every image has the dimensions of the first.
Homogeneous ==
    /\ batch.images # <<>>
    /\ \A i \in 1..Len(batch.images) :
          /\ batch.images[i].width = batch.images[1].width
          /\ batch.images[i].height = batch.images[1].height

\* Channel c of pixel (x, y) of an image: byte (y*W + x)*3 + c of its raster.
ChannelOf(img, x, y, c) == img.raw[(y * img.width + x) * 3 + c + 1]

\* C30 (SpecBuffer).  Planar CHW layout: for a homogeneous batch of N images of
\* size WxH, images_to_buffer returns shape [N,3,H,W] and places channel c of
\* pixel (x,y) of image n at buffer index n*3*H*W + c*H*W + y*W + x, preserving
\* batch order; it returns an error and no shape when the batch is empty, when
\* an image's dimensions differ from the first image's, or when the buffer
\* dtype differs from the target dtype.
C30_PlanarLayout ==
    batch.pc = "done" =>
        IF Homogeneous /\ batch.buffer.type = batch.target_type
        THEN LET N == Len(batch.images)
                 W == batch.images[1].width
                 H == batch.images[1].height
             IN  /\ batch.ret = Ok(<<N, 3, H, W>>)
                 /\ \A n \in 0..(N - 1), c \in 0..2, y \in 0..(H - 1), x \in 0..(W - 1) :
                       LET e == batch.buffer.data[n * 3 * H * W + c * H * W + y * W + x + 1]
                       IN  /\ e.type = batch.target_type
                           /\ e.num = ChannelOf(batch.images[n + 1], x, y, c)
                           /\ e.den = 255
        ELSE batch.ret[1] = "err"

\* Two different 2x2 images were written and the shape [2,3,2,2] returned.
C30_Witness ==
    /\ batch.pc = "done"
    /\ batch.ret = Ok(<<2, 3, 2, 2>>)
    /\ batch.images[1] # batch.images[2]

\* The pixel of the upscaled tiles the canvas holds at (px, py): the origin of
\* the last rectangle stitched over it and the offset inside that rectangle,
\* or <<>> when nothing was written there.
CanvasPixel(px, py) ==
    LET over == { i \in 1..Len(output_image) : Covers(output_image[i], px, py) }
    IN  IF over = {} THEN <<>>
        ELSE LET r == output_image[CHOOSE i \in over : \A j \in over : j <= i]
             IN  <<r.x, r.y, px - r.x, py - r.y>>

\* The same pixel as the image, the tile size and the scale alone determine it.
ReferencePixel(px, py) ==
    LET side == pass.tile_size * pass.scale
    IN  <<(px \div side) * side, (py \div side) * side, px % side, py % side>>

\* C31 (SpecTiled).  Scheduling independence: the image a completed
\* process_tiled returns is the one the input image, the tile size and the
\* scale determine, pixel by pixel, whatever the batch size and the
\* interleaving of the producer and the consumer.
C31_SchedulingIndependence ==
    PassCompleted =>
        \A px \in 0..(pass.out_width - 1), py \in 0..(pass.out_height - 1) :
            CanvasPixel(px, py) = ReferencePixel(px, py)

\* A completed pass over three tiles in batches of two: a full batch and the
\* remaining tile were received and stitched.
C31_Witness ==
    /\ PassCompleted
    /\ pass.total_tiles = 3
    /\ pass.batch_size = 2
    /\ Len(obs.batches) = 2

\* The tiles in the consumer's hands, about to be or being passed to the
\* inference callback.
AtCallback == IF cons.pc \in {"call", "infer"} THEN cons.batch ELSE <<>>

\* C32 (SpecTiled).  Tile geometry: for input W x H and tile size T the grid
\* is ceil(W/T) x ceil(H/T); every tile handed to the callback, edge tiles
\* included, is (T + 2p) x (T + 2p) with p = 0 on a grid of one tile and the
\* plan's padding otherwise; its metadata has content_width =
\* min(T, W - x_index*T) and content_height = min(T, H - y_index*T), both at
\* least 1.
C32_TileGeometry ==
    job.pc = "pass" =>
        LET T == pass.tile_size
            p == IF CeilDiv(pass.width, T) * CeilDiv(pass.height, T) = 1 THEN 0 ELSE Padding
        IN  /\ pass.tiles_x = CeilDiv(pass.width, T)
            /\ pass.tiles_y = CeilDiv(pass.height, T)
            /\ \A i \in 1..Len(AtCallback) :
                  LET t == AtCallback[i]
                  IN  /\ t.width = T + 2 * p /\ t.height = T + 2 * p
                      /\ t.x_index < pass.tiles_x /\ t.y_index < pass.tiles_y
                      /\ t.content_width = Min(T, pass.width - t.x_index * T)
                      /\ t.content_height = Min(T, pass.height - t.y_index * T)
                      /\ t.content_width >= 1 /\ t.content_height >= 1

\* The callback is given the right edge tile of an image three pixels wide
\* cut in tiles of two pixels: one pixel of content in a tile of full size.
C32_EdgeTile ==
    /\ job.pc = "pass" /\ cons.pc = "infer"
    /\ pass.tile_size = 2 /\ pass.width = 3
    /\ \E i \in 1..Len(cons.batch) :
          /\ cons.batch[i].x_index = 1
          /\ cons.batch[i].content_width = 1
          /\ cons.batch[i].width = 2 + 2 * Padding

\* Both threads of the running pass have finished.
ThreadsFinished == job.pc = "pass" /\ cons.pc = "join" /\ prod.pc = "done"

\* C33 (SpecPipeline).  Pipeline termination: provided every call of the
\* inference callback returns, a running process_tiled always comes to have
\* both its producer and its consumer finished, and returns, in every
\* interleaving, also when the consumer returns early while the producer is
\* parked in send on the full queue.
C33_PipelineTermination ==
    /\ (job.pc = "pass") ~> ThreadsFinished
    /\ (job.pc = "pass") ~> (job.pc # "pass")

\* The consumer returned an error while the producer was parked in send on
\* the full queue, and the producer has exited.
C33_Witness ==
    /\ ThreadsFinished
    /\ chan.parked
    /\ pass.result[1] = "err"

\* The grid tiles the canvas holds: the tiles whose rectangle was stitched.
TilesStitched ==
    { <<output_image[i].x \div (pass.tile_size * pass.scale),
        output_image[i].y \div (pass.tile_size * pass.scale)>> : i \in 1..Len(output_image) }

\* C34 (SpecTiled).  Completeness of success: process_tiled returns Ok(image)
\* only if every one of the ceil(W/T) * ceil(H/T) grid tiles was passed
\* through the inference callback and stitched; it never returns Ok with a
\* canvas in which the region of some tile was left unwritten.
C34_CompletenessOfSuccess ==
    pass.result = Ok(0) =>
        /\ pass.processed_tiles = CeilDiv(pass.width, pass.tile_size)
                                     * CeilDiv(pass.height, pass.tile_size)
        /\ TilesStitched = (0..(pass.tiles_x - 1)) \X (0..(pass.tiles_y - 1))

\* C35 (SpecTiled).  Fixed-input conformance: when the model requires a fixed
\* spatial input S (S > 64), every tile process_with_session submits to the
\* session is exactly S x S, for every image size, grids of one tile and both
\* passes of a double upscale included.
C35_FixedInputConformance ==
    (cfg.fixed_input_size # None /\ cfg.fixed_input_size[1] > 2 * Padding) =>
        \A d \in obs.tile_dims : d = <<cfg.fixed_input_size[1], cfg.fixed_input_size[1]>>

\* Two get_or_load_model calls of the same path are in progress with the
\* memory preflight not tripped.
ConcurrentLoads(t, u) ==
    /\ t # u
    /\ call[t].op = "get_or_load_model" /\ call[u].op = "get_or_load_model"
    /\ call[t].path = call[u].path
    /\ ~call[t].low /\ ~call[u].low

\* C36 (SpecModelCache).  Concurrent cache loads: when two get_or_load_model
\* calls for the same, not yet cached path run concurrently (memory preflight
\* not tripped), exactly one session is loaded and both callers receive
\* the same handle: the two calls never both hold a session of their own
\* making (OrtSession::new succeeded in each).
C36_ConcurrentCacheLoads ==
    \A t, u \in Callers :
        ConcurrentLoads(t, u) => ~(call[t].loaded /\ call[u].loaded)

\* C37 (SpecScaleCache).  Invalidation versus in-flight probe: if
\* invalidate_cache(path) runs while a get_model_scale(path) probe is in
\* progress, then once both have returned the scale cache holds no entry for
\* path that was computed from the probe started before the invalidation.
C37_InvalidationVersusProbe ==
    (lastOp.op = "get_model_scale" /\ lastOp.stale) => scale_cache[lastOp.path] = NoEntry

\* C38 (SpecScaleCache).  Sentinel separation: get_model_scale never returns
\* Ok(0), and for a given path every call between two invalidations returns
\* the same kind of result as the probe before it: after Ok(s) every later
\* call returns Ok(s), after an error every later call returns an error,
\* whatever output shape the probe produced.
C38_SentinelSeparation ==
    lastOp.op = "get_model_scale" =>
        /\ lastOp.ret # Ok(0)
        /\ lastOp.prior # Nothing => lastOp.ret[1] = lastOp.prior[1]
        /\ (lastOp.prior # Nothing /\ lastOp.prior[1] = "ok") => lastOp.ret = lastOp.prior

\* The upscaled tile is not (T + 2p) * scale on both sides.
UnexpectedTileSize ==
    LET side == (stitch.tile_size + 2 * stitch.padding) * stitch.scale
    IN  stitch.up_w # side \/ stitch.up_h # side

\* Row i of the copy lies inside the cropped tile's pixel data and inside the
\* canvas, and is the cropped tile's row i.
RowInBounds(i) ==
    LET row == stitch.rows[i]
    IN  /\ row.src + row.len <= stitch.cropped.width * stitch.cropped.height * Channels
        /\ row.dst + row.len <= stitch.out_w * stitch.out_h * Channels
        /\ row.src = SrcRowStart(i - 1, stitch.crop_w, stitch.cropped.width)

\* C39 (SpecStitch).  Stitch bounds safety: for every upscaled tile the
\* inference callback may return, stitch_tile never panics on a slice outside
\* the cropped tile's pixel data or outside the canvas, every row it copies is
\* the cropped tile's row of the same index, and a tile of unexpected size
\* makes it return an error.
C39_StitchBoundsSafety ==
    /\ stitch.pc # "panicked"
    /\ stitch.pc \in {"rows", "returned"} => \A i \in 1..Len(stitch.rows) : RowInBounds(i)
    /\ (stitch.pc = "returned" /\ UnexpectedTileSize) => stitch.ret[1] = "err"

\* C40 (SpecCancel).  Cancel targeting: cancel_job(id) returns Ok; it sets the
\* cancel flag of every job running under the id (two jobs started with the
\* same caller-supplied id included) and leaves the flag of every other
\* running job as it was; with an id that is not registered it changes
\* neither a flag nor running_jobs.
C40_CancelTargeting ==
    registry.last # None =>
        LET l == registry.last[1]
        IN  /\ l.ret = Ok(0)
            /\ \A c \in l.targets : registry.job[c].flag
            /\ \A c \in l.running \ l.targets : registry.job[c].flag = l.flags[c]
            /\ l.found = NoFlag =>
                  /\ \A c \in Invocations : registry.job[c].flag = l.flags[c]
                  /\ registry.running_jobs = l.map

====
